---- MODULE Spec2Model ----
(***************************************************************************)
(* LazyCopy minifilter driver: the I/O interception state machine          *)
(* (Operations.c), the per-file lock registry (FileLocks.c), the reparse   *)
(* point (stub mark) clearer (ReparsePoints.c) and the chunked fetch       *)
(* engine (Fetch.c).                                                       *)
(*                                                                         *)
(* Spec      : threads running the create and read/write callbacks.        *)
(* SpecFetch : one run of LcFetchRemoteFile / LcFetchFileByChunks.         *)
(* SpecUntag : LcUntagFile applied to files with every attribute set.      *)
(* SpecConfig: LcGetReportRateForPath beside one configuration change.     *)
(* SpecOpen  : LcOpenFile, with the user-mode client behind the port.      *)
(* SpecQuery : one query-information request through both callbacks.       *)
(* SpecWait  : read/write callbacks contending for the file locks, fairly. *)
(* SpecSession: connects and disconnects of the client, and notifications. *)
(* SpecCreate: PreCreateOperationCallback on one open.                     *)
(* SpecContext: opens, reads and writes of one stub and its stream context.*)
(* SpecMark  : LcGetReparsePointData on one stub mark.                     *)
(***************************************************************************)
EXTENDS Integers, Sequences, FiniteSets, TLC

\* ------------------------------------------------------------------ bounds

\* Number of threads that run callbacks concurrently.
NumThreads == 2

\* How many times in a row LcUntagFile is called on one file (SpecUntag).
MaxUntagCalls == 2

Threads == 1..NumThreads

\* Thread 1 belongs to the user-mode client (helper) process, the others to an
\* ordinary application.  PsGetThreadProcessId(Data->Thread).
PidOf(t) == IF t = 1 THEN "helper" ELSE "app"

\* File names as opened (FLT_FILE_NAME_OPENED).
Names == {"a", "b"}

Upcase(n) == IF n = "a" THEN "A" ELSE IF n = "b" THEN "B" ELSE n

FileOf(n) == Upcase(n)

Files == {FileOf(n) : n \in Names}

\* RtlCompareUnicodeString(n1, n2, TRUE) == 0
RtlCompareUnicodeString(n1, n2) == Upcase(n1) = Upcase(n2)

\* NT_SUCCESS(status): success and informational codes (status >= 0).
NT_SUCCESS(s) ==
    s \in {"STATUS_SUCCESS", "STATUS_REPARSE", "STATUS_TIMEOUT", "STATUS_PENDING"}

Min(a, b) == IF a < b THEN a ELSE b

\* ------------------------------------------------- stub mark (ReparsePoints.c)

\* Attribute bits of a file.
AttrBits == {"READONLY", "ARCHIVE", "OFFLINE", "NOT_CONTENT_INDEXED", "REPARSE_POINT"}

\* The file system stores FILE_BASIC_INFORMATION.FileAttributes: a value of
\* zero leaves the attributes alone, and FILE_ATTRIBUTE_REPARSE_POINT follows
\* the presence of the reparse point, not the value written.
FltSetInformationFile(file, attrs) ==
    IF attrs = {} THEN file
    ELSE [file EXCEPT !.FileAttributes =
            (attrs \ {"REPARSE_POINT"})
            \cup (IF file.ReparseTag # "NONE" THEN {"REPARSE_POINT"} ELSE {})]

\* FltUntagFile(Instance, fileObject, LC_REPARSE_TAG, &LC_REPARSE_GUID)
FltUntagFile(file) ==
    IF file.ReparseTag = "LC"
    THEN [status |-> "STATUS_SUCCESS",
          file   |-> [file EXCEPT !.ReparseTag = "NONE",
                                  !.FileAttributes = @ \ {"REPARSE_POINT"}]]
    ELSE IF file.ReparseTag = "NONE"
    THEN [status |-> "STATUS_NOT_A_REPARSE_POINT", file |-> file]
    ELSE [status |-> "STATUS_IO_REPARSE_TAG_MISMATCH", file |-> file]

\* The calls of LcUntagFile that can fail; "none": every call succeeds.
UntagFaults == {"none", "query", "setreadonly", "open", "untag", "setattributes"}

\* A mark clear that forgets to remove the reparse point.
LcUntagFile_KeepsTag(file, fault) ==
    [status |-> "STATUS_SUCCESS", file |-> file]

\* A mark clear that does not restore the read-only attribute.
LcUntagFile_DropsReadOnly(file, fault) ==
    LET r == FltUntagFile(file)
    IN  [status |-> "STATUS_SUCCESS",
         file   |-> FltSetInformationFile(r.file,
                        file.FileAttributes
                        \ {"READONLY", "REPARSE_POINT", "OFFLINE", "NOT_CONTENT_INDEXED"})]

\* LcUntagFile: the status returned and the file as it is left.
LcUntagFile(file, fault) ==
    LET basicInformation == file.FileAttributes
        readOnlyFile     == "READONLY" \in basicInformation
        cleared          == basicInformation \ {"READONLY"}
        afterReadOnly    == IF readOnlyFile /\ fault # "setreadonly"
                            THEN FltSetInformationFile(file, cleared)
                            ELSE file
        untag            == FltUntagFile(afterReadOnly)
        final            == (cleared \ {"REPARSE_POINT", "OFFLINE", "NOT_CONTENT_INDEXED"})
                            \cup (IF readOnlyFile THEN {"READONLY"} ELSE {})
    IN  IF fault = "query"
        THEN [status |-> "STATUS_ACCESS_DENIED", file |-> file]
        ELSE IF readOnlyFile /\ fault = "setreadonly"
        THEN [status |-> "STATUS_ACCESS_DENIED", file |-> file]
        ELSE IF fault = "open"
        THEN [status |-> "STATUS_ACCESS_DENIED", file |-> afterReadOnly]
        ELSE IF fault = "untag"
        THEN [status |-> "STATUS_ACCESS_DENIED", file |-> afterReadOnly]
        ELSE IF ~NT_SUCCESS(untag.status) /\ untag.status # "STATUS_NOT_A_REPARSE_POINT"
        THEN [status |-> untag.status, file |-> afterReadOnly]
        ELSE IF fault = "setattributes"
        THEN [status |-> "STATUS_ACCESS_DENIED", file |-> untag.file]
        ELSE [status |-> "STATUS_SUCCESS",
              file   |-> FltSetInformationFile(untag.file, final)]

\* ------------------------------------------------ lock registry (FileLocks.c)

\* FILE_LOCK_ENTRY: id stands for the address of the entry (and of its Event);
\* freed is set once the pool block of a still linked entry has been freed.
FirstMatch(list, name) ==
    LET hits == {i \in 1..Len(list) : RtlCompareUnicodeString(name, list[i].FileName)}
    IN  IF hits = {} THEN 0 ELSE CHOOSE i \in hits : \A j \in hits : i <= j

FirstWithEvent(list, ev) ==
    LET hits == {i \in 1..Len(list) : list[i].id = ev}
    IN  IF hits = {} THEN 0 ELSE CHOOSE i \in hits : \A j \in hits : i <= j

FreshId(list) ==
    CHOOSE i \in 1..(Len(list) + 1) :
        /\ \A k \in 1..Len(list) : list[k].id # i
        /\ \A j \in 1..(Len(list) + 1) :
               (\A k \in 1..Len(list) : list[k].id # j) => i <= j

RemoveAt(list, i) == SubSeq(list, 1, i - 1) \o SubSeq(list, i + 1, Len(list))

\* KeInitializeEvent(&fileLockEntry->Event, SynchronizationEvent, TRUE): a
\* satisfied wait resets the event.
EventAfterWait(signaled) == FALSE

\* The outcomes of the two allocations LcGetFileLock makes for a new entry.
AllocOutcomes == {"ok", "entry", "name"}

\* LcGetFileLock: status, the list afterwards and the event returned (0: none).
\* When the allocation of a new entry fails, fileLockEntry still points at the
\* last entry the search looked at, and the __finally block frees that entry's
\* name and the entry itself while it stays linked.
LcGetFileLock(list, name, alloc) ==
    LET i == FirstMatch(list, name)
    IN  IF i # 0
        THEN [status |-> "STATUS_SUCCESS",
              list   |-> [list EXCEPT ![i].RefCount = @ + 1],
              Event  |-> list[i].id]
        ELSE IF alloc = "entry"
        THEN [status |-> "STATUS_INSUFFICIENT_RESOURCES",
              list   |-> IF Len(list) = 0 THEN list
                         ELSE [list EXCEPT ![Len(list)].FileName = "",
                                           ![Len(list)].freed = TRUE],
              Event  |-> 0]
        ELSE IF alloc = "name"
        THEN [status |-> "STATUS_INSUFFICIENT_RESOURCES", list |-> list, Event |-> 0]
        ELSE [status |-> "STATUS_SUCCESS",
              list   |-> <<[id |-> FreshId(list), FileName |-> name, Event |-> TRUE,
                            RefCount |-> 1, freed |-> FALSE]>> \o list,
              Event  |-> FreshId(list)]

\* LcReleaseFileLock: the list afterwards.
LcReleaseFileLock(list, ev) ==
    LET i == FirstWithEvent(list, ev)
    IN  IF i = 0 THEN list
        ELSE IF list[i].RefCount - 1 <= 0 THEN RemoveAt(list, i)
        ELSE [list EXCEPT ![i].RefCount = @ - 1, ![i].Event = TRUE]

\* ----------------------------------------------------------- state (Spec)

VARIABLES
    files,                \* file -> [ReparseTag, FileAttributes]
    streamContext,        \* file -> whether an LC_STREAM_CONTEXT is attached
    FileLocksList,        \* sequence of FILE_LOCK_ENTRY, head first
    TrustedProccessList,  \* Configuration.TrustedProccessList, as a set of pids
    sys,                  \* "ok", "corrupt" (pool block freed while linked), "crashed"
    thr,                  \* thread -> the locals of the callback it runs
    untagCall,            \* SpecUntag: the file LcUntagFile is called on, and the call
    engine,               \* SpecFetch: the locals of LcFetchFileByChunks and its I/O
    config,               \* SpecConfig: Configuration, one reader and one mutator
    opener,               \* SpecOpen: LcOpenFile and the client port
    query,                \* SpecQuery: one query-information request
    session,              \* SpecSession: the connection variables of Communication.c
    request,              \* SpecCreate: one IRP_MJ_CREATE through the pre-callback
    contexts,             \* SpecContext: the stream contexts of one file and their holders
    reparse,              \* SpecMark: one stub mark and the call of LcGetReparsePointData on it
    chunking,             \* SpecChunk: the chunks of one fetch and the sizes asked for
    gate,                 \* SpecMode: the operation mode beside opens and reads
    sync,                 \* SpecLock: the resources, the file events and who holds them
    helper                \* SpecHelper: the connection variables beside the calls that use them

ivars == <<files, streamContext, FileLocksList, TrustedProccessList, sys,
           thr>>

vars == <<ivars, untagCall, engine, config, opener, query, session, request, contexts, reparse, chunking, gate, sync, helper>>

\* DRIVER_OPERATION_MODE: the empty set is DriverDisabled.
Modes == {{}, {"WatchEnabled"}, {"FetchEnabled"}}

\* The attributes of a stub as the stub creator leaves it.
StubFile ==
    [ReparseTag     |-> "LC",
     FileAttributes |-> {"ARCHIVE", "OFFLINE", "NOT_CONTENT_INDEXED", "REPARSE_POINT"}]

\* The locals of a callback before it runs; fileLockEvent 0 is NULL.
Locals(op, name) ==
    [pc |-> "idle", op |-> op, name |-> name, trusted |-> FALSE,
     status |-> "STATUS_SUCCESS", cancelOnError |-> FALSE, fileLockEvent |-> 0,
     completionContext |-> {},
     callbackStatus |-> "NONE",
     IoStatus |-> [Status |-> "NONE", Information |-> "NONE"],
     parked |-> FALSE, lateConsumer |-> FALSE,
     fetchStatus |-> "NONE", untagStatus |-> "NONE"]

\* The callback has returned: Data->IoStatus and the callback status are what
\* the filter manager sees; the other locals are gone, but for the record of
\* what the operation was (op, name, trusted) and of what LcFetchRemoteFile
\* and LcUntagFile returned to it.
Returned(rec) ==
    [Locals(rec.op, rec.name) EXCEPT !.trusted = rec.trusted,
                                     !.callbackStatus = rec.callbackStatus,
                                     !.IoStatus = rec.IoStatus,
                                     !.fetchStatus = rec.fetchStatus,
                                     !.untagStatus = rec.untagStatus]

InitI ==
    /\ files = [f \in Files |-> StubFile]
    /\ streamContext = [f \in Files |-> FALSE]
    /\ FileLocksList = <<>>
    /\ TrustedProccessList = {}
    /\ sys = "ok"
    /\ thr = [t \in Threads |-> Locals("none", "a")]

\* Under Spec no single call of LcUntagFile is followed and no run of the fetch
\* engine is unfolded: PreReadWriteOperationCallback sees only their results.
NoUntagCall == [calls |-> 0]

NoEngine == [pc |-> "none"]

\* Under the other specifications no configuration call is followed.
NoConfig == [pc |-> "none"]

NoOpener == [pc |-> "none"]

NoQuery == [pc |-> "none"]

NoSession == [pc |-> "none"]

NoRequest == [pc |-> "none"]

NoContexts == [pool |-> <<>>]

NoReparse == [pc |-> "none"]

NoChunking == [pc |-> "none"]

NoGate == [pc |-> "none"]

NoSync == [pc |-> "none"]

NoHelper == [pc |-> "none"]

Init == InitI /\ untagCall = NoUntagCall /\ engine = NoEngine /\ config = NoConfig
        /\ opener = NoOpener /\ query = NoQuery
        /\ session = NoSession /\ request = NoRequest
        /\ contexts = NoContexts
        /\ reparse = NoReparse
        /\ chunking = NoChunking
        /\ gate = NoGate
        /\ sync = NoSync
        /\ helper = NoHelper

Running == sys # "crashed"

Set(t, rec) == thr' = [thr EXCEPT ![t] = rec]

\* ------------------------------------------------- configuration, session

\* A trusted check that trusts nobody.
LcIsProcessTrusted_Nobody(pid, list) == FALSE

\* LcIsProcessTrusted(ProcessId)
LcIsProcessTrusted(pid, list) == pid \in list

\* LcAddTrustedProcess(ClientProcessId), called by LcCommunicationPortConnect.
LcAddTrustedProcess ==
    /\ Running
    /\ "helper" \notin TrustedProccessList
    /\ TrustedProccessList' = TrustedProccessList \cup {"helper"}
    /\ UNCHANGED <<files, streamContext, FileLocksList, sys, thr, untagCall, engine, config, opener, query, session, request, contexts, reparse, chunking, gate, sync, helper>>

\* LcRemoveTrustedProcess(ClientProcessId), called by LcResetConnectionVariables.
LcRemoveTrustedProcess ==
    /\ Running
    /\ "helper" \in TrustedProccessList
    /\ TrustedProccessList' = TrustedProccessList \ {"helper"}
    /\ UNCHANGED <<files, streamContext, FileLocksList, sys, thr, untagCall, engine, config, opener, query, session, request, contexts, reparse, chunking, gate, sync, helper>>

\* A thread about to walk FileLocksList touches the freed entry: the system
\* may stop (bugcheck) instead of reading the stale block.
Bugcheck(t) ==
    /\ sys = "corrupt"
    /\ thr[t].pc \in {"rw_lock", "rw_release"}
    /\ \E i \in 1..Len(FileLocksList) : FileLocksList[i].freed
    /\ sys' = "crashed"
    /\ UNCHANGED <<files, streamContext, FileLocksList, TrustedProccessList, thr, untagCall, engine, config, opener, query, session, request, contexts, reparse, chunking, gate, sync, helper>>

\* --------------------------------- PreReadWriteOperationCallback (Operations.c)

\* The statuses LcFetchRemoteFile returns.
FetchOutcomes == {"STATUS_SUCCESS", "STATUS_ACCESS_DENIED", "STATUS_IO_DEVICE_ERROR"}

\* The __finally block of PreReadWriteOperationCallback, up to the release of
\* the file lock: the I/O is completed with the failure only after the re-check.
RwFinally_NeverFails(rec) ==
    Returned([rec EXCEPT !.callbackStatus = "FLT_PREOP_SUCCESS_NO_CALLBACK"])

RwFinally(rec) ==
    IF ~NT_SUCCESS(rec.status) /\ rec.cancelOnError
    THEN Returned([rec EXCEPT !.IoStatus = [Status |-> rec.status, Information |-> "0"],
                              !.callbackStatus = "FLT_PREOP_COMPLETE"])
    ELSE Returned([rec EXCEPT !.callbackStatus = "FLT_PREOP_SUCCESS_NO_CALLBACK"])

\* The re-check of the reparse tag after the event was consumed: whether the
\* file is still to be fetched.
StillTagged_NoRecheck(file) == TRUE

StillTagged(file) == file.ReparseTag = "LC"

\* A read, write or section acquire arrives: the trusted check, the stream
\* context lookup and the file name query.
RwPre(t) ==
    /\ Running
    /\ thr[t].pc = "idle"
    /\ \E n \in Names, nameOk \in BOOLEAN :
         LET rec == Locals("rw", n) IN
         IF LcIsProcessTrusted(PidOf(t), TrustedProccessList)
         THEN nameOk /\ Set(t, RwFinally([rec EXCEPT !.trusted = TRUE]))
         ELSE IF ~streamContext[FileOf(n)]
         THEN nameOk /\ Set(t, RwFinally(rec))
         ELSE IF ~nameOk
         THEN Set(t, RwFinally([rec EXCEPT !.status = "STATUS_FLT_INVALID_NAME_REQUEST"]))
         ELSE Set(t, [rec EXCEPT !.pc = "rw_lock"])
    /\ UNCHANGED <<files, streamContext, FileLocksList, TrustedProccessList, sys, untagCall, engine, config, opener, query, session, request, contexts, reparse, chunking, gate, sync, helper>>

\* LcGetFileLock(&nameInfo->Name, &fileLockEvent)
RwGetFileLock(t) ==
    /\ Running
    /\ thr[t].pc = "rw_lock"
    /\ \E alloc \in AllocOutcomes :
         LET r == LcGetFileLock(FileLocksList, thr[t].name, alloc) IN
         /\ alloc # "ok" => FirstMatch(FileLocksList, thr[t].name) = 0
         /\ FileLocksList' = r.list
         /\ sys' = IF \E i \in 1..Len(r.list) : r.list[i].freed THEN "corrupt" ELSE sys
         /\ IF NT_SUCCESS(r.status)
            THEN Set(t, [thr[t] EXCEPT !.fileLockEvent = r.Event, !.pc = "rw_try"])
            ELSE Set(t, RwFinally([thr[t] EXCEPT !.status = r.status]))
    /\ UNCHANGED <<files, streamContext, TrustedProccessList, untagCall, engine, config, opener, query, session, request, contexts, reparse, chunking, gate, sync, helper>>

\* KeWaitForSingleObject(fileLockEvent, ..., &zeroTimeout)
RwTryWait(t) ==
    /\ Running
    /\ thr[t].pc = "rw_try"
    /\ LET i == FirstWithEvent(FileLocksList, thr[t].fileLockEvent) IN
       IF FileLocksList[i].Event
       THEN /\ FileLocksList' = [FileLocksList EXCEPT ![i].Event = EventAfterWait(@)]
            /\ Set(t, [thr[t] EXCEPT !.pc = "rw_check",
                         !.lateConsumer = (files[FileOf(thr[t].name)].ReparseTag # "LC")])
       ELSE /\ Set(t, [thr[t] EXCEPT !.pc = "rw_wait", !.parked = TRUE])
            /\ UNCHANGED FileLocksList
    /\ UNCHANGED <<files, streamContext, TrustedProccessList, sys, untagCall, engine, config, opener, query, session, request, contexts, reparse, chunking, gate, sync, helper>>

\* KeWaitForSingleObject(fileLockEvent, ..., NULL) is satisfied.
RwWake(t) ==
    /\ Running
    /\ thr[t].pc = "rw_wait"
    /\ LET i == FirstWithEvent(FileLocksList, thr[t].fileLockEvent) IN
       /\ FileLocksList[i].Event
       /\ FileLocksList' = [FileLocksList EXCEPT ![i].Event = EventAfterWait(@)]
    /\ Set(t, [thr[t] EXCEPT !.pc = "rw_release"])
    /\ UNCHANGED <<files, streamContext, TrustedProccessList, sys, untagCall, engine, config, opener, query, session, request, contexts, reparse, chunking, gate, sync, helper>>

\* FltQueryInformationFile(FileAttributeTagInformation), and the start of
\* LcFetchRemoteFile when the file is still tagged.
RwCheck(t) ==
    /\ Running
    /\ thr[t].pc = "rw_check"
    /\ \E queryOk \in BOOLEAN :
         LET f == FileOf(thr[t].name) IN
         IF ~queryOk
         THEN Set(t, [thr[t] EXCEPT !.status = "STATUS_ACCESS_DENIED", !.pc = "rw_release",
                        !.lateConsumer = FALSE])
         ELSE IF ~StillTagged(files[f])
         THEN Set(t, [thr[t] EXCEPT !.pc = "rw_release", !.lateConsumer = FALSE])
         ELSE Set(t, [thr[t] EXCEPT !.cancelOnError = TRUE, !.pc = "rw_fetching"])
    /\ UNCHANGED <<files, streamContext, FileLocksList, TrustedProccessList, sys, untagCall, engine, config, opener, query, session, request, contexts, reparse, chunking, gate, sync, helper>>

\* LcFetchRemoteFile returns.
RwFetchEnd(t) ==
    /\ Running
    /\ thr[t].pc = "rw_fetching"
    /\ \E s \in FetchOutcomes :
         Set(t, [thr[t] EXCEPT !.fetchStatus = s, !.status = s,
                   !.pc = IF NT_SUCCESS(s) THEN "rw_untag" ELSE "rw_release"])
    /\ UNCHANGED <<files, streamContext, FileLocksList, TrustedProccessList, sys, untagCall, engine, config, opener, query, session, request, contexts, reparse, chunking, gate, sync, helper>>

\* LcUntagFile(FltObjects, &nameInfo->Name) after the fetch.
RwUntag(t) ==
    /\ Running
    /\ thr[t].pc = "rw_untag"
    /\ \E fault \in UntagFaults :
         LET f == FileOf(thr[t].name)
             r == LcUntagFile(files[f], fault) IN
         /\ fault = "setreadonly" => "READONLY" \in files[f].FileAttributes
         /\ files' = [files EXCEPT ![f] = r.file]
         /\ Set(t, [thr[t] EXCEPT !.status = r.status, !.untagStatus = r.status,
                      !.pc = IF NT_SUCCESS(r.status) THEN "rw_delctx" ELSE "rw_release"])
    /\ UNCHANGED <<streamContext, FileLocksList, TrustedProccessList, sys, untagCall, engine, config, opener, query, session, request, contexts, reparse, chunking, gate, sync, helper>>

\* FltDeleteStreamContext(FltObjects->Instance, FltObjects->FileObject, NULL)
RwDeleteContext(t) ==
    /\ Running
    /\ thr[t].pc = "rw_delctx"
    /\ LET f == FileOf(thr[t].name) IN
       /\ streamContext' = [streamContext EXCEPT ![f] = FALSE]
       /\ Set(t, [thr[t] EXCEPT !.pc = "rw_release",
                    !.status = IF streamContext[f] THEN "STATUS_SUCCESS"
                               ELSE "STATUS_NOT_FOUND"])
    /\ UNCHANGED <<files, FileLocksList, TrustedProccessList, sys, untagCall, engine, config, opener, query, session, request, contexts, reparse, chunking, gate, sync, helper>>

\* The __finally block: the I/O is failed or passed through, and
\* LcReleaseFileLock(fileLockEvent) is called.
RwRelease(t) ==
    /\ Running
    /\ thr[t].pc = "rw_release"
    /\ FileLocksList' = LcReleaseFileLock(FileLocksList, thr[t].fileLockEvent)
    /\ Set(t, RwFinally(thr[t]))
    /\ UNCHANGED <<files, streamContext, TrustedProccessList, sys, untagCall, engine, config, opener, query, session, request, contexts, reparse, chunking, gate, sync, helper>>

\* ------------------------ Pre/PostCreateOperationCallback (Operations.c)

\* The calls of LcGetReparsePointData that can fail; "none": every call succeeds.
ReparseFaults == {"none", "alloc", "invalid"}

\* LcGetReparsePointData: the status returned.
LcGetReparsePointData(file, fault) ==
    IF file.ReparseTag # "LC" THEN "STATUS_NOT_A_REPARSE_POINT"
    ELSE IF fault = "alloc" THEN "STATUS_INSUFFICIENT_RESOURCES"
    ELSE IF fault = "invalid" THEN "STATUS_IO_REPARSE_DATA_INVALID"
    ELSE "STATUS_SUCCESS"

\* A __finally block that never cancels the open.
CreateFinally_KeepsOpen(rec) == Returned(rec)

\* The __finally block of PostCreateOperationCallback: the open is cancelled
\* on every failure but STATUS_NOT_A_REPARSE_POINT.
CreateFinally(rec) ==
    IF ~NT_SUCCESS(rec.status) /\ rec.status # "STATUS_NOT_A_REPARSE_POINT"
    THEN Returned([rec EXCEPT !.IoStatus = [Status |-> rec.status, Information |-> "0"]])
    ELSE Returned(rec)

\* PreCreateOperationCallback.  candidate: the open passes the filters on the
\* target, the create options, the I/O flags and the disposition; allocOk: the
\* completion context and the file name were obtained; operationMode: what
\* LcGetOperationMode() returns, the mode the client has set last.  A branch
\* enumerates only the inputs it reads.
PreCreate(t) ==
    /\ Running
    /\ thr[t].pc = "idle"
    /\ \E n \in Names, candidate \in BOOLEAN, allocOk \in BOOLEAN, operationMode \in Modes :
         LET rec == [Locals("create", n) EXCEPT
                        !.callbackStatus = "FLT_PREOP_SUCCESS_NO_CALLBACK"] IN
         IF ~candidate \/ operationMode = {}
         THEN /\ allocOk /\ (~candidate => operationMode = {})
              /\ Set(t, Returned(rec))
         ELSE IF LcIsProcessTrusted(PidOf(t), TrustedProccessList)
         THEN /\ allocOk /\ operationMode = {"FetchEnabled"}
              /\ Set(t, Returned([rec EXCEPT !.trusted = TRUE]))
         ELSE IF ~allocOk
         THEN /\ operationMode = {"FetchEnabled"}
              /\ Set(t, Returned(rec))
         ELSE Set(t, [rec EXCEPT !.pc = "cr_lower",
                        !.completionContext = {[OperationMode |-> operationMode]},
                        !.callbackStatus = "FLT_PREOP_SUCCESS_WITH_CALLBACK"])
    /\ UNCHANGED <<files, streamContext, FileLocksList, TrustedProccessList, sys, untagCall, engine, config, opener, query, session, request, contexts, reparse, chunking, gate, sync, helper>>

\* What the re-issued open reports.
ReissueOutcomes ==
    {[Status |-> "STATUS_SUCCESS", Information |-> "FILE_OPENED"],
     [Status |-> "STATUS_SUCCESS", Information |-> "FILE_CREATED"],
     [Status |-> "STATUS_SUCCESS", Information |-> "FILE_OVERWRITTEN"],
     [Status |-> "STATUS_SUCCESS", Information |-> "FILE_SUPERSEDED"],
     [Status |-> "STATUS_SHARING_VIOLATION", Information |-> "0"]}

\* The layers below complete the open, and PostCreateOperationCallback runs up
\* to the re-issued open.  lowerOk: the open did not fail; openReparse: the
\* caller asked for FILE_OPEN_REPARSE_POINT itself, so that a stub is opened
\* without STATUS_REPARSE.
PostCreate(t) ==
    /\ Running
    /\ thr[t].pc = "cr_lower"
    /\ \E lowerOk \in BOOLEAN, openReparse \in BOOLEAN, defaultStream \in BOOLEAN,
          r \in ReissueOutcomes :
         LET f       == FileOf(thr[t].name)
             mode    == (CHOOSE c \in thr[t].completionContext : TRUE).OperationMode
             lower   == IF ~lowerOk
                        THEN [Status |-> "STATUS_ACCESS_DENIED", Information |-> "0"]
                        ELSE IF files[f].ReparseTag = "LC" /\ ~openReparse
                        THEN [Status |-> "STATUS_REPARSE", Information |-> "LC"]
                        ELSE [Status |-> "STATUS_SUCCESS", Information |-> "FILE_OPENED"]
             rec     == [thr[t] EXCEPT !.IoStatus = lower]
             skip    == \/ ~NT_SUCCESS(lower.Status)
                        \/ lower.Status # "STATUS_REPARSE"
                        \/ "FetchEnabled" \notin mode
         IN
         IF skip \/ ~defaultStream
         THEN /\ skip => defaultStream
              /\ r.Information = "FILE_OPENED"
              /\ (~lowerOk \/ files[f].ReparseTag # "LC") => ~openReparse
              /\ Set(t, CreateFinally(rec))
         ELSE IF ~NT_SUCCESS(r.Status)
         THEN Set(t, CreateFinally([rec EXCEPT !.IoStatus = r, !.status = r.Status]))
         ELSE Set(t, [rec EXCEPT !.IoStatus = r, !.status = r.Status,
                        !.completionContext = {},
                        !.pc = IF r.Information = "FILE_OPENED"
                               THEN "cr_getrp" ELSE "cr_untag"])
    /\ UNCHANGED <<files, streamContext, FileLocksList, TrustedProccessList, sys, untagCall, engine, config, opener, query, session, request, contexts, reparse, chunking, gate, sync, helper>>

\* The file was created, overwritten or superseded: LcUntagFile.
PostCreateUntag(t) ==
    /\ Running
    /\ thr[t].pc = "cr_untag"
    /\ \E fault \in UntagFaults :
         LET f == FileOf(thr[t].name)
             r == LcUntagFile(files[f], fault) IN
         /\ fault = "setreadonly" => "READONLY" \in files[f].FileAttributes
         /\ files' = [files EXCEPT ![f] = r.file]
         /\ Set(t, CreateFinally([thr[t] EXCEPT !.status = r.status,
                                                !.untagStatus = r.status]))
    /\ UNCHANGED <<streamContext, FileLocksList, TrustedProccessList, sys, untagCall, engine, config, opener, query, session, request, contexts, reparse, chunking, gate, sync, helper>>

\* LcGetReparsePointData(FltObjects, &fileSize, &remotePath, &useCustomHandler)
PostCreateGetReparse(t) ==
    /\ Running
    /\ thr[t].pc = "cr_getrp"
    /\ \E fault \in ReparseFaults :
         LET s == LcGetReparsePointData(files[FileOf(thr[t].name)], fault) IN
         /\ fault # "none" => files[FileOf(thr[t].name)].ReparseTag = "LC"
         /\ IF NT_SUCCESS(s)
            THEN Set(t, [thr[t] EXCEPT !.status = s, !.pc = "cr_setctx"])
            ELSE Set(t, CreateFinally([thr[t] EXCEPT !.status = s]))
    /\ UNCHANGED <<files, streamContext, FileLocksList, TrustedProccessList, sys, untagCall, engine, config, opener, query, session, request, contexts, reparse, chunking, gate, sync, helper>>

\* LcFindOrCreateStreamContext(Data, TRUE, ...): the context found, or a new
\* one set with FLT_SET_CONTEXT_KEEP_IF_EXISTS.
PostCreateSetContext(t) ==
    /\ Running
    /\ thr[t].pc = "cr_setctx"
    /\ \E allocOk \in BOOLEAN :
         LET f == FileOf(thr[t].name) IN
         IF streamContext[f]
         THEN /\ allocOk
              /\ Set(t, CreateFinally(thr[t]))
              /\ UNCHANGED streamContext
         ELSE IF ~allocOk
         THEN /\ Set(t, CreateFinally([thr[t] EXCEPT !.status = "STATUS_INSUFFICIENT_RESOURCES"]))
              /\ UNCHANGED streamContext
         ELSE /\ streamContext' = [streamContext EXCEPT ![f] = TRUE]
              /\ Set(t, CreateFinally(thr[t]))
    /\ UNCHANGED <<files, FileLocksList, TrustedProccessList, sys, untagCall, engine, config, opener, query, session, request, contexts, reparse, chunking, gate, sync, helper>>

\* ----------------------------------------------------------- specification

Next ==
    \/ LcAddTrustedProcess
    \/ LcRemoveTrustedProcess
    \/ \E t \in Threads : Bugcheck(t)
    \/ \E t \in Threads : PreCreate(t)
    \/ \E t \in Threads : PostCreate(t)
    \/ \E t \in Threads : PostCreateUntag(t)
    \/ \E t \in Threads : PostCreateGetReparse(t)
    \/ \E t \in Threads : PostCreateSetContext(t)
    \/ \E t \in Threads : RwPre(t)
    \/ \E t \in Threads : RwGetFileLock(t)
    \/ \E t \in Threads : RwTryWait(t)
    \/ \E t \in Threads : RwWake(t)
    \/ \E t \in Threads : RwCheck(t)
    \/ \E t \in Threads : RwFetchEnd(t)
    \/ \E t \in Threads : RwUntag(t)
    \/ \E t \in Threads : RwDeleteContext(t)
    \/ \E t \in Threads : RwRelease(t)

Spec == Init /\ [][Next]_vars

\* ------------------------------------------- SpecUntag: LcUntagFile by itself

\* The files LcUntagFile can be handed: marked by this driver ("LC"), without
\* a reparse point ("NONE"), or carrying the reparse point of another owner
\* ("OTHER"); FILE_ATTRIBUTE_REPARSE_POINT is set exactly on the last two.
UntagTargets ==
    {[ReparseTag |-> tag,
      FileAttributes |-> a \cup (IF tag = "NONE" THEN {} ELSE {"REPARSE_POINT"})] :
        tag \in {"LC", "NONE", "OTHER"}, a \in SUBSET (AttrBits \ {"REPARSE_POINT"})}

InitUntag ==
    /\ InitI
    /\ engine = NoEngine
    /\ config = NoConfig
    /\ opener = NoOpener
    /\ query = NoQuery
    /\ session = NoSession
    /\ request = NoRequest
    /\ contexts = NoContexts
    /\ reparse = NoReparse
    /\ chunking = NoChunking
    /\ gate = NoGate
    /\ sync = NoSync
    /\ helper = NoHelper
    /\ untagCall \in {[calls |-> 0, file |-> f, before |-> f, fault |-> "none",
                        status |-> "NONE", previous |-> "NONE"] : f \in UntagTargets}

\* LcUntagFile(FltObjects, FileName) on the file; the call can be repeated.
UntagCall ==
    /\ untagCall.calls < MaxUntagCalls
    /\ \E fault \in UntagFaults :
         LET r == LcUntagFile(untagCall.file, fault) IN
         /\ fault = "setreadonly" => "READONLY" \in untagCall.file.FileAttributes
         /\ untagCall' = [calls |-> untagCall.calls + 1, file |-> r.file,
                          before |-> untagCall.file, fault |-> fault,
                          status |-> r.status, previous |-> untagCall.status]
    /\ UNCHANGED <<ivars, engine, config, opener, query, session, request, contexts, reparse, chunking, gate, sync, helper>>

NextUntag == UntagCall

SpecUntag == InitUntag /\ [][NextUntag]_vars

\* ------------------------------------------- fetch engine: chunks (Fetch.c)

\* Sizes and offsets are counted in units of 64 KiB: ChunkSize is 128 KiB.
ChunkSize == 2

MaxChunks == 4

\* The range of a ULONG, 2^32 bytes, on the scale of the sizes of the model.
ULongRange == 16

\* The largest size the source declares, and the largest it really has.
MaxSize == 10

\* How many waits of one run may end by their timeout (TimeoutMilliseconds).
MaxTimeouts == 1

\* (ULONG)x
ToULong(x) == x % ULongRange

Max(a, b) == IF a > b THEN a ELSE b

\* The bytes a read of length bytes at offset gets from a source that holds
\* actual bytes.
Delivered(actual, offset, length) == Min(length, Max(0, actual - offset))

\* The place in the list of the chunk with this id, and the chunk.
Pos(chunks, id) == CHOOSE i \in 1..Len(chunks) : chunks[i].id = id

ChunkOf(chunks, id) == chunks[Pos(chunks, id)]

\* LcGetNextAvailableChunk, the move: the first chunk when there is no current
\* chunk (0), else the next one, the first again after the last.
NextInRing(chunks, current) ==
    IF current = 0 THEN chunks[1].id
    ELSE LET i == Pos(chunks, current)
         IN  chunks[IF i = Len(chunks) THEN 1 ELSE i + 1].id

\* LcAddNewChunk(Instance, Entry, RemainingBytes, &chunk, ListLength): the new
\* chunk goes before the entry at place `before` (Len + 1: the list head).
\* data: the number of the read whose bytes the buffer holds, 0 for none.
LcAddNewChunk(chunks, before, remainingBytes, allocOk) ==
    LET bufferSize == Min(ChunkSize, ToULong(remainingBytes))
        newChunk   == [id |-> Len(chunks) + 1, BufferSize |-> bufferSize,
                       BytesInBuffer |-> 0, data |-> 0]
    IN  IF ~allocOk
        THEN [status |-> "STATUS_INSUFFICIENT_RESOURCES", chunks |-> chunks, chunk |-> 0]
        ELSE IF bufferSize = 0
        THEN [status |-> "STATUS_INVALID_PARAMETER_3", chunks |-> chunks, chunk |-> 0]
        ELSE [status |-> "STATUS_SUCCESS",
              chunks |-> SubSeq(chunks, 1, before - 1) \o <<newChunk>>
                         \o SubSeq(chunks, before, Len(chunks)),
              chunk  |-> newChunk.id]

\* LcInitializeChunksList(Instance, &chunksListHead, remainingBytes, &chunkListLength)
LcInitializeChunksList(fileSize, allocOk) ==
    LET first  == LcAddNewChunk(<<>>, 1, fileSize, allocOk)
        rest   == fileSize - first.chunks[1].BufferSize
        second == LcAddNewChunk(first.chunks, 2, rest, TRUE)
    IN  IF ~NT_SUCCESS(first.status)
        THEN [status |-> first.status, chunks |-> <<>>]
        ELSE IF rest <= 0
        THEN [status |-> first.status, chunks |-> first.chunks]
        ELSE IF ~NT_SUCCESS(second.status)
        THEN [status |-> second.status, chunks |-> <<>>]
        ELSE [status |-> second.status, chunks |-> second.chunks]

\* A list that grows whatever its length.
CanExtend_Always(length) == TRUE

\* LcGetNextAvailableChunk: whether the list can be extended.
CanExtend(length) == length < MaxChunks

\* A write callback that reports no bytes.
LcWriteCallback_NoBytes(status, information) ==
    [Status |-> status, BytesWritten |-> 0]

\* LcWriteCallback: what it leaves in the WRITE_CALLBACK_CONTEXT.
LcWriteCallback(status, information) ==
    [Status |-> status,
     BytesWritten |-> IF NT_SUCCESS(status) THEN information ELSE 0]

\* --------------------------------- fetch engine: LcFetchFileByChunks (Fetch.c)

\* The locals of LcFetchRemoteFile and LcFetchFileByChunks before they run, the
\* source (declared: the size the source reports, actual: the bytes it holds,
\* handle: whether the source file handle is signalled) and the I/O in flight
\* (pending: the reads, pendingWrite: the write).  reads lists the reads issued;
\* written counts the local writes completed, writtenBytes their bytes, and
\* inOrder tells whether each of them carried the bytes of the read of the same
\* number at the offset of that read; lastSplice records the chunk list as
\* LcGetNextAvailableChunk found it when it last added a chunk.
\* EndOfFile is the end of file of the local file, which starts empty.
EngineStart(declared, actual, signaled) ==
    [pc |-> "start", status |-> "STATUS_SUCCESS",
     declared |-> declared, actual |-> actual, handle |-> signaled,
     chunks |-> <<>>, readChunk |-> 0, writeChunk |-> 0, nextChunk |-> 0,
     eof |-> FALSE, waitingForRead |-> FALSE, writeComplete |-> FALSE,
     writeEvent |-> FALSE,
     statusBlock |-> [Status |-> "STATUS_SUCCESS", Information |-> 0],
     writeCallbackContext |-> [Status |-> "STATUS_SUCCESS", BytesWritten |-> 0],
     remainingBytes |-> 0, totalBytesRead |-> 0, totalBytesWritten |-> 0,
     sourceFileOffset |-> 0, destinationFileOffset |-> 0, BytesCopied |-> 0,
     pending |-> {}, pendingWrite |-> {}, reads |-> <<>>,
     written |-> 0, writtenBytes |-> 0, inOrder |-> TRUE,
     timeouts |-> 0, lastSplice |-> {}, EndOfFile |-> 0]

\* __leave with a failure status.
Fail(e, status) == [e EXCEPT !.pc = "failed", !.status = status]

\* The source completes read r: the status block, the buffer, the handle.
CompleteRead(e, r, ok) ==
    LET bytes  == IF ok THEN Delivered(e.actual, r.offset, r.length) ELSE 0
        status == IF ~ok THEN "STATUS_IO_DEVICE_ERROR"
                  ELSE IF bytes = 0 THEN "STATUS_END_OF_FILE" ELSE "STATUS_SUCCESS"
        i      == Pos(e.chunks, r.chunk)
    IN  [e EXCEPT !.statusBlock = [Status |-> status, Information |-> bytes],
                  !.chunks[i].data = IF bytes > 0 THEN r.k ELSE @,
                  !.handle = TRUE,
                  !.pending = @ \ {r}]

\* ZwReadFile(SourceFileHandle, ..., &statusBlock, readChunk->Buffer,
\* readChunk->BufferSize, &sourceFileOffset, NULL) and the check of what it
\* returns: the read is pending, or it has completed before the call returns,
\* or the call fails; a read that starts at the end of the source can fail
\* with STATUS_END_OF_FILE at once.
ZwReadFile(e) ==
    LET r       == [k |-> Len(e.reads) + 1, chunk |-> e.readChunk,
                    offset |-> e.sourceFileOffset,
                    length |-> ChunkOf(e.chunks, e.readChunk).BufferSize]
        hasData == Delivered(e.actual, r.offset, r.length) > 0
        issued  == [e EXCEPT
                      !.reads = Append(@, [offset |-> r.offset, length |-> r.length]),
                      !.handle = FALSE,
                      !.pending = @ \cup {r},
                      !.pendingWrite =
                          {[w EXCEPT !.raced = IF w.chunk = r.chunk /\ hasData
                                               THEN @ \cup {r.k} ELSE @] : w \in @},
                      !.status = "STATUS_PENDING"]
    IN  {issued, Fail(e, "STATUS_IO_DEVICE_ERROR")}
        \cup (IF hasData
              THEN {[CompleteRead(issued, r, TRUE) EXCEPT !.status = "STATUS_SUCCESS"]}
              ELSE {Fail(e, "STATUS_END_OF_FILE")})

\* FltWriteFile(..., &destinationFileOffset, writeChunk->BytesInBuffer,
\* writeChunk->Buffer, ..., LcWriteCallback, &writeCallbackContext): the write
\* is in flight, or the call fails.  raced: the reads in flight into the same
\* buffer.
FltWriteFile(e) ==
    LET chunk == ChunkOf(e.chunks, e.writeChunk)
        w     == [chunk |-> chunk.id, offset |-> e.destinationFileOffset,
                  length |-> chunk.BytesInBuffer, data |-> chunk.data,
                  raced |-> {r.k : r \in {p \in e.pending :
                                /\ p.chunk = chunk.id
                                /\ Delivered(e.actual, p.offset, p.length) > 0}}]
    IN  {[e EXCEPT !.pendingWrite = {w}, !.status = "STATUS_SUCCESS"],
         Fail(e, "STATUS_INSUFFICIENT_RESOURCES")}

\* The write side of one turn of the loop (Fetch.c 626-683).
WriteSide(e) ==
    IF ~e.writeComplete THEN {[e EXCEPT !.pc = "top"]}
    ELSE
    LET ctx     == e.writeCallbackContext
        updated == IF e.writeChunk = 0 THEN e
                   ELSE [e EXCEPT
                           !.chunks[Pos(e.chunks, e.writeChunk)].BytesInBuffer = 0,
                           !.totalBytesWritten = @ + ctx.BytesWritten,
                           !.destinationFileOffset = @ + ctx.BytesWritten]
        e1      == IF e.waitingForRead THEN e
                   ELSE IF e.writeChunk # 0 /\ ~NT_SUCCESS(ctx.Status)
                   THEN Fail(e, ctx.Status)
                   ELSE [updated EXCEPT
                           !.writeChunk = NextInRing(e.chunks, e.writeChunk),
                           !.status = "STATUS_SUCCESS"]
        e2      == [e1 EXCEPT !.waitingForRead = FALSE, !.pc = "top"]
    IN  IF e1.pc = "failed" THEN {e1}
        ELSE IF ChunkOf(e2.chunks, e2.writeChunk).BytesInBuffer = 0
        THEN IF e2.eof
             THEN {[e2 EXCEPT !.pc = "done", !.BytesCopied = e2.totalBytesWritten]}
             ELSE {[e2 EXCEPT !.waitingForRead = TRUE]}
        ELSE FltWriteFile([e2 EXCEPT !.writeEvent = FALSE])

\* The read is scheduled into readChunk, then the write side runs.
ScheduleRead(e) ==
    UNION {IF x.pc = "failed" THEN {x} ELSE WriteSide(x) : x \in ZwReadFile(e)}

\* The read side from the update of the current chunk to the end of the status
\* check (Fetch.c 562-585).
UpdateReadChunk(e) ==
    LET status    == e.statusBlock.Status
        bytesRead == e.statusBlock.Information
        i         == Pos(e.chunks, e.readChunk)
        atEnd     == status = "STATUS_END_OF_FILE" \/ bytesRead < e.chunks[i].BufferSize
    IN  IF NT_SUCCESS(status) \/ status = "STATUS_END_OF_FILE"
        THEN [e EXCEPT !.chunks[i].BytesInBuffer = bytesRead,
                       !.remainingBytes = IF atEnd THEN 0 ELSE @ - bytesRead,
                       !.totalBytesRead = @ + bytesRead,
                       !.sourceFileOffset = @ + bytesRead,
                       !.eof = atEnd,
                       !.status = IF atEnd THEN "STATUS_SUCCESS" ELSE status]
        ELSE Fail(e, status)

\* LcGetNextAvailableChunk for a read, up to the wait for the write event, and
\* what follows when it does not wait (Fetch.c 590-622, 814-847).
ReadNext(e) ==
    LET remaining == IF e.remainingBytes <= 0 THEN ChunkSize ELSE e.remainingBytes
        e1        == [e EXCEPT !.remainingBytes = remaining]
        chunk     == ChunkOf(e.chunks, NextInRing(e.chunks, e.readChunk))
    IN  IF chunk.BytesInBuffer = 0
        THEN ScheduleRead([e1 EXCEPT !.readChunk = chunk.id])
        ELSE IF CanExtend(Len(e.chunks))
        THEN UNION {
               LET a == LcAddNewChunk(e.chunks, Pos(e.chunks, chunk.id), remaining, allocOk)
               IN  IF ~NT_SUCCESS(a.status) THEN {Fail(e1, a.status)}
                   ELSE ScheduleRead([e1 EXCEPT
                          !.chunks = a.chunks, !.readChunk = a.chunk,
                          !.lastSplice = {[next |-> chunk.BytesInBuffer,
                                           length |-> Len(e.chunks)]}])
               : allocOk \in BOOLEAN}
        ELSE {[e1 EXCEPT !.pc = "rwait", !.nextChunk = chunk.id]}

\* One turn of the loop from the two waits at its top (Fetch.c 546-557) to the
\* next turn, the end of the loop or the wait for the write event.
Iteration(e, readComplete) ==
    LET e1 == [e EXCEPT !.writeComplete = e.writeEvent]
        e2 == IF e.readChunk # 0 THEN UpdateReadChunk(e1) ELSE e1
    IN  IF e.eof \/ ~readComplete THEN WriteSide(e1)
        ELSE IF e2.pc = "failed" THEN {e2}
        ELSE IF e2.eof THEN WriteSide(e2)
        ELSE ReadNext(e2)

\* ------------------------------------------ SpecFetch: one run of the engine

InitFetch ==
    /\ InitI
    /\ untagCall = NoUntagCall
    /\ config = NoConfig
    /\ opener = NoOpener
    /\ query = NoQuery
    /\ session = NoSession
    /\ request = NoRequest
    /\ contexts = NoContexts
    /\ reparse = NoReparse
    /\ chunking = NoChunking
    /\ gate = NoGate
    /\ sync = NoSync
    /\ helper = NoHelper
    /\ engine \in {EngineStart(declared, actual, signaled) :
                     declared \in 0..MaxSize, actual \in 0..MaxSize,
                     signaled \in BOOLEAN}

\* LcFetchRemoteFile up to the loop of LcFetchFileByChunks: the source is
\* opened and its size queried, an empty source ends the fetch, the local file
\* is extended and the chunk list initialized.
FetchBegin ==
    /\ engine.pc = "start"
    /\ \E fault \in {"none", "open", "query", "seteof", "alloc"} :
         LET init == LcInitializeChunksList(engine.declared, fault # "alloc") IN
         /\ engine.declared = 0 => fault \notin {"seteof", "alloc"}
         /\ engine' =
              IF fault = "open" THEN Fail(engine, "STATUS_OBJECT_NAME_NOT_FOUND")
              ELSE IF fault = "query" THEN Fail(engine, "STATUS_ACCESS_DENIED")
              ELSE IF engine.declared = 0 THEN [engine EXCEPT !.pc = "done"]
              ELSE IF fault = "seteof" THEN Fail(engine, "STATUS_DISK_FULL")
              ELSE IF ~NT_SUCCESS(init.status) THEN Fail(engine, init.status)
              ELSE [engine EXCEPT !.pc = "top", !.writeEvent = TRUE,
                                  !.remainingBytes = engine.declared,
                                  !.chunks = init.chunks,
                                  !.EndOfFile = engine.declared]
    /\ UNCHANGED <<ivars, untagCall, config, opener, query, session, request, contexts, reparse, chunking, gate, sync, helper>>

\* One turn of the loop: with waitingForRead it starts when the source handle
\* is signalled, else it polls the handle.
FetchLoop ==
    /\ engine.pc = "top"
    /\ engine.waitingForRead => engine.handle
    /\ engine' \in Iteration([engine EXCEPT !.status = IF engine.waitingForRead
                                                        THEN "STATUS_SUCCESS" ELSE @],
                             engine.handle)
    /\ UNCHANGED <<ivars, untagCall, config, opener, query, session, request, contexts, reparse, chunking, gate, sync, helper>>

\* The wait for the read ends by its timeout: STATUS_TIMEOUT is not a failure
\* for NT_IF_FAIL_LEAVE, and readComplete is set.
FetchLoopTimeout ==
    /\ engine.pc = "top"
    /\ engine.waitingForRead /\ ~engine.handle
    /\ engine.timeouts < MaxTimeouts
    /\ engine' \in Iteration([engine EXCEPT !.status = "STATUS_TIMEOUT",
                                            !.timeouts = @ + 1], TRUE)
    /\ UNCHANGED <<ivars, untagCall, config, opener, query, session, request, contexts, reparse, chunking, gate, sync, helper>>

\* LcGetNextAvailableChunk returns from KeWaitForSingleObject(WriteOperationEvent)
\* with the write event set, and the read is scheduled.
FetchWaitWrite ==
    /\ engine.pc = "rwait"
    /\ engine.writeEvent
    /\ engine' \in ScheduleRead([engine EXCEPT !.readChunk = engine.nextChunk,
                                               !.nextChunk = 0,
                                               !.status = "STATUS_SUCCESS"])
    /\ UNCHANGED <<ivars, untagCall, config, opener, query, session, request, contexts, reparse, chunking, gate, sync, helper>>

\* The same wait ends by its timeout.
FetchWaitWriteTimeout ==
    /\ engine.pc = "rwait"
    /\ ~engine.writeEvent
    /\ engine.timeouts < MaxTimeouts
    /\ engine' \in ScheduleRead([engine EXCEPT !.readChunk = engine.nextChunk,
                                               !.nextChunk = 0,
                                               !.status = "STATUS_TIMEOUT",
                                               !.timeouts = @ + 1])
    /\ UNCHANGED <<ivars, untagCall, config, opener, query, session, request, contexts, reparse, chunking, gate, sync, helper>>

\* Whether write w, carrying the bytes d, is the write of the read of its
\* number: the bytes that read delivered, at the offset it read them from.
CarriesRead(e, w, d) ==
    LET k == e.written + 1 IN
    /\ k <= Len(e.reads)
    /\ d = k
    /\ w.offset = e.reads[k].offset
    /\ w.length = Delivered(e.actual, e.reads[k].offset, e.reads[k].length)

\* The source completes a read that is in flight.
ReadCompletes ==
    /\ engine.pc \in {"top", "rwait"}
    /\ \E r \in engine.pending, ok \in BOOLEAN :
         engine' = CompleteRead(engine, r, ok)
    /\ UNCHANGED <<ivars, untagCall, config, opener, query, session, request, contexts, reparse, chunking, gate, sync, helper>>

\* The local write completes and LcWriteCallback runs.  A write whose buffer a
\* read was filling carries the bytes the buffer held, the bytes of that read,
\* or a mix of both (-1).
WriteCompletes ==
    /\ engine.pc \in {"top", "rwait"}
    /\ \E w \in engine.pendingWrite, ok \in BOOLEAN :
       \E d \in {w.data} \cup (IF w.raced = {} THEN {} ELSE w.raced \cup {-1}) :
         LET status == IF ok THEN "STATUS_SUCCESS" ELSE "STATUS_DISK_FULL" IN
         /\ ~ok => d = w.data
         /\ engine' = [engine EXCEPT
                         !.pendingWrite = {},
                         !.writeEvent = TRUE,
                         !.writeCallbackContext = LcWriteCallback(status, w.length),
                         !.written = IF ok THEN @ + 1 ELSE @,
                         !.writtenBytes = IF ok THEN @ + w.length ELSE @,
                         !.EndOfFile = IF ok THEN Max(@, w.offset + w.length) ELSE @,
                         !.inOrder = IF ok THEN @ /\ CarriesRead(engine, w, d) ELSE @]
    /\ UNCHANGED <<ivars, untagCall, config, opener, query, session, request, contexts, reparse, chunking, gate, sync, helper>>

NextFetch ==
    \/ FetchBegin
    \/ FetchLoop
    \/ FetchLoopTimeout
    \/ FetchWaitWrite
    \/ FetchWaitWriteTimeout
    \/ ReadCompletes
    \/ WriteCompletes

SpecFetch == InitFetch /\ [][NextFetch]_vars

\* ------------------------------- SpecConfig: configuration (Configuration.c)

\* MAX_REPORT_RATE, in units of 5000 chances in 10,000.
MAX_REPORT_RATE == 2

\* Longest list of paths given to one configuration change.
MaxPaths == 2

\* Directories as sequences of components; a directory path ends with the
\* separator, so a prefix of characters is a prefix of components.
WatchDirs == {<<"a">>, <<"A", "b">>, <<"b">>}

\* Strings handed to LcAddPathToWatch: a directory with or without the
\* trailing separator.
WatchInputs ==
    {[dir |-> d, slash |-> TRUE] : d \in WatchDirs}
    \cup {[dir |-> <<"a">>, slash |-> FALSE]}

\* File names LcGetReportRateForPath is asked about.
QueryPaths == {<<"A", "B", "f">>, <<"a", "f">>, <<"b", "f">>}

PathLists ==
    UNION {[1..n -> WatchInputs] : n \in 0..MaxPaths}

\* LcValidatePath: the path ends with the directory separator.
LcValidatePath(input) == input.slash

\* A prefix test that tells upper case from lower case.
RtlPrefixUnicodeString_CaseSensitive(s1, s2) ==
    /\ Len(s1) <= Len(s2)
    /\ \A i \in 1..Len(s1) : s1[i] = s2[i]

\* RtlPrefixUnicodeString(String1, String2, TRUE)
RtlPrefixUnicodeString(s1, s2) ==
    /\ Len(s1) <= Len(s2)
    /\ \A i \in 1..Len(s1) : Upcase(s1[i]) = Upcase(s2[i])

\* LcIsPathWatched: some entry of PathsToWatch is a prefix of the path.
LcIsPathWatched(paths, path) ==
    \E entry \in paths : RtlPrefixUnicodeString(entry, path)

\* A store of the report rate that does not look at the value.
LcSetReportRate_NoClamp(value) == value

\* LcSetReportRate: the value stored in Configuration.ReportRate.
LcSetReportRate(value) ==
    IF value > MAX_REPORT_RATE THEN MAX_REPORT_RATE ELSE value

\* LcAddPathToWatch: the status and the list after the call.
LcAddPathToWatch(paths, input, allocOk) ==
    IF ~LcValidatePath(input)
    THEN [status |-> "STATUS_INVALID_PARAMETER_1", paths |-> paths]
    ELSE IF LcIsPathWatched(paths, input.dir)
    THEN [status |-> "STATUS_SUCCESS", paths |-> paths]
    ELSE IF ~allocOk
    THEN [status |-> "STATUS_INSUFFICIENT_RESOURCES", paths |-> paths]
    ELSE [status |-> "STATUS_SUCCESS", paths |-> paths \cup {input.dir}]

\* What LcGetReportRateForPath returns when nothing runs beside it.
LcGetReportRateForPath(paths, rate, path) ==
    IF LcIsPathWatched(paths, path) THEN rate ELSE 0

\* LcGetRegistryValueDWord / LcGetRegistryValueString: the value is there, is
\* missing (STATUS_INVALID_PARAMETER), or cannot be read.
RegistryOutcomes == {"value", "missing", "error"}

IdleReader == [pc |-> "idle", path |-> <<>>, watched |-> FALSE, result |-> 0]

\* value: the report rate the client sent, or the one read from the registry;
\* list: the paths the client sent, or the ones read from the registry.
IdleMutator ==
    [pc |-> "idle", op |-> "none", status |-> "STATUS_SUCCESS", todo |-> <<>>,
     pre |-> [paths |-> {}, rate |-> 0], value |-> 0, list |-> <<>>]

InitConfig ==
    /\ InitI
    /\ untagCall = NoUntagCall
    /\ engine = NoEngine
    /\ opener = NoOpener
    /\ query = NoQuery
    /\ session = NoSession
    /\ request = NoRequest
    /\ contexts = NoContexts
    /\ reparse = NoReparse
    /\ chunking = NoChunking
    /\ gate = NoGate
    /\ sync = NoSync
    /\ helper = NoHelper
    /\ config \in {[pc |-> "run", PathsToWatch |-> paths, ReportRate |-> rate,
                    OperationMode |-> mode, Lock |-> "free",
                    rd |-> IdleReader, mu |-> IdleMutator] :
                      paths \in SUBSET WatchDirs, rate \in 0..MAX_REPORT_RATE,
                      mode \in Modes}

ConfigState == [paths |-> config.PathsToWatch, rate |-> config.ReportRate]

\* LcGetReportRateForPath, first half: LcIsPathWatched(Path) under the shared
\* Configuration.Lock, which is released before the function returns.
GetRateIsPathWatched ==
    /\ config.pc = "run"
    /\ config.rd.pc = "idle"
    /\ config.Lock = "free"
    /\ \E path \in QueryPaths :
         config' = [config EXCEPT !.rd = [pc |-> "rate", path |-> path,
                       watched |-> LcIsPathWatched(config.PathsToWatch, path),
                       result |-> 0]]
    /\ UNCHANGED <<ivars, untagCall, engine, opener, query, session, request, contexts, reparse, chunking, gate, sync, helper>>

\* LcGetReportRateForPath, second half: Configuration.ReportRate is read with
\* no lock held.
GetRateReadRate ==
    /\ config.pc = "run"
    /\ config.rd.pc = "rate"
    /\ config' = [config EXCEPT !.rd.pc = "done",
                     !.rd.result = IF config.rd.watched THEN config.ReportRate ELSE 0]
    /\ UNCHANGED <<ivars, untagCall, engine, opener, query, session, request, contexts, reparse, chunking, gate, sync, helper>>

\* LcSetReportRateHandler: LcSetReportRate(value), a store with no lock.
SetReportRate ==
    /\ config.pc = "run"
    /\ config.mu.pc = "idle"
    /\ \E value \in 0..(MAX_REPORT_RATE + 1) :
         config' = [config EXCEPT !.ReportRate = LcSetReportRate(value),
                       !.mu = [IdleMutator EXCEPT !.pc = "done", !.op = "set_report_rate",
                                  !.pre = ConfigState, !.value = value]]
    /\ UNCHANGED <<ivars, untagCall, engine, opener, query, session, request, contexts, reparse, chunking, gate, sync, helper>>

\* LcSetWatchPathsHandler up to the loop: LcClearPathsToWatch().
SetWatchPathsClear ==
    /\ config.pc = "run"
    /\ config.mu.pc = "idle"
    /\ config.Lock = "free"
    /\ \E list \in PathLists :
         config' = [config EXCEPT !.PathsToWatch = {},
                       !.mu = [IdleMutator EXCEPT
                                  !.pc = IF list = <<>> THEN "done" ELSE "add",
                                  !.op = "set_watch_paths", !.todo = list,
                                  !.list = list, !.pre = ConfigState]]
    /\ UNCHANGED <<ivars, untagCall, engine, opener, query, session, request, contexts, reparse, chunking, gate, sync, helper>>

\* One turn of the loop over the strings, in LcSetWatchPathsHandler and in
\* LcReadConfigurationFromRegistry: LcAddPathToWatch(&currentString), which
\* takes Configuration.Lock for itself (the registry reader holds it already).
AddPath ==
    /\ config.pc = "run"
    /\ config.mu.pc = "add"
    /\ config.mu.op = "set_watch_paths" => config.Lock = "free"
    /\ \E allocOk \in BOOLEAN :
         LET r == LcAddPathToWatch(config.PathsToWatch, Head(config.mu.todo), allocOk)
             rest == Tail(config.mu.todo)
             after == IF config.mu.op = "reload" THEN "finally" ELSE "done"
         IN
         config' = [config EXCEPT !.PathsToWatch = r.paths,
                       !.mu.status = r.status,
                       !.mu.todo = rest,
                       !.mu.pc = IF NT_SUCCESS(r.status) /\ rest # <<>>
                                 THEN "add" ELSE after]
    /\ UNCHANGED <<ivars, untagCall, engine, opener, query, session, request, contexts, reparse, chunking, gate, sync, helper>>

\* LcReadConfigurationFromRegistry: Configuration.Lock is taken exclusively
\* and the ReportRate value is read and stored.
ReloadReportRate ==
    /\ config.pc = "run"
    /\ config.mu.pc = "idle"
    /\ config.Lock = "free"
    /\ \E outcome \in RegistryOutcomes, value \in 0..(MAX_REPORT_RATE + 1) :
         /\ outcome # "value" => value = 0
         /\ config' = [config EXCEPT !.Lock = "reload",
                          !.ReportRate = IF outcome = "error" THEN @
                                         ELSE LcSetReportRate(value),
                          !.mu = [IdleMutator EXCEPT
                                     !.pc = IF outcome = "error" THEN "finally" ELSE "mode",
                                     !.op = "reload",
                                     !.status = IF outcome = "error"
                                                THEN "STATUS_UNSUCCESSFUL"
                                                ELSE "STATUS_SUCCESS",
                                     !.pre = ConfigState, !.value = value]]
    /\ UNCHANGED <<ivars, untagCall, engine, opener, query, session, request, contexts, reparse, chunking, gate, sync, helper>>

\* LcReadConfigurationFromRegistry: the OperationMode value.
ReloadOperationMode ==
    /\ config.pc = "run"
    /\ config.mu.pc = "mode"
    /\ \E outcome \in RegistryOutcomes, mode \in Modes :
         /\ outcome # "value" => mode = {}
         /\ config' = [config EXCEPT
                          !.OperationMode = IF outcome = "error" THEN @ ELSE mode,
                          !.mu.pc = IF outcome = "error" THEN "finally" ELSE "paths",
                          !.mu.status = IF outcome = "error"
                                        THEN "STATUS_UNSUCCESSFUL"
                                        ELSE "STATUS_SUCCESS"]
    /\ UNCHANGED <<ivars, untagCall, engine, opener, query, session, request, contexts, reparse, chunking, gate, sync, helper>>

\* LcReadConfigurationFromRegistry: LcClearPathsToWatch() and the WatchPaths
\* value.
ReloadWatchPaths ==
    /\ config.pc = "run"
    /\ config.mu.pc = "paths"
    /\ \E outcome \in RegistryOutcomes, list \in PathLists :
         /\ outcome # "value" => list = <<>>
         /\ config' = [config EXCEPT
                          !.PathsToWatch = {},
                          !.mu.todo = list,
                          !.mu.list = list,
                          !.mu.pc = IF outcome = "value" /\ list # <<>>
                                    THEN "add" ELSE "finally",
                          !.mu.status = IF outcome = "error"
                                        THEN "STATUS_UNSUCCESSFUL"
                                        ELSE "STATUS_SUCCESS"]
    /\ UNCHANGED <<ivars, untagCall, engine, opener, query, session, request, contexts, reparse, chunking, gate, sync, helper>>

\* LcReadConfigurationFromRegistry, __finally: a failure resets the whole
\* configuration; the lock is released.
ReloadFinally ==
    /\ config.pc = "run"
    /\ config.mu.pc = "finally"
    /\ config' = [config EXCEPT
                     !.OperationMode = IF NT_SUCCESS(config.mu.status) THEN @ ELSE {},
                     !.ReportRate = IF NT_SUCCESS(config.mu.status) THEN @
                                    ELSE LcSetReportRate(0),
                     !.PathsToWatch = IF NT_SUCCESS(config.mu.status) THEN @ ELSE {},
                     !.Lock = "free",
                     !.mu.pc = "done"]
    /\ UNCHANGED <<ivars, untagCall, engine, opener, query, session, request, contexts, reparse, chunking, gate, sync, helper>>

NextConfig ==
    \/ GetRateIsPathWatched
    \/ GetRateReadRate
    \/ SetReportRate
    \/ SetWatchPathsClear
    \/ AddPath
    \/ ReloadReportRate
    \/ ReloadOperationMode
    \/ ReloadWatchPaths
    \/ ReloadFinally

SpecConfig == InitConfig /\ [][NextConfig]_vars

\* ---------------------------- SpecOpen: LcOpenFile (Fetch.c, Communication.c)

\* Remote paths a stub points to.
SourceFiles == {"\\\\srv\\a", "\\\\srv\\b"}

\* What ZwOpenFile on the remote path returns.
ZwOpenFileOutcomes ==
    {"STATUS_SUCCESS", "STATUS_ACCESS_DENIED", "STATUS_OBJECT_NAME_NOT_FOUND",
     "STATUS_SHARING_VIOLATION"}

\* What FltSendMessage returns at once, without a reply; the call is made
\* with no timeout.
FltSendMessageFailures ==
    {"STATUS_INSUFFICIENT_RESOURCES", "STATUS_THREAD_IS_TERMINATING"}

\* What ZwDuplicateObject returns for a handle of the client: handle 0 is
\* NULL, the client's reply when it could not open the file.
ZwDuplicateObjectOutcomes(handle) ==
    IF handle = 0 THEN {"STATUS_INVALID_HANDLE"}
    ELSE {"STATUS_SUCCESS", "STATUS_INVALID_HANDLE", "STATUS_ACCESS_DENIED"}

\* LcOpenFile: the status it returns after LcOpenFileInUserMode returned
\* notificationStatus for an open that failed with STATUS_ACCESS_DENIED.
LcOpenFile_NoRemap(status, notificationStatus) == notificationStatus

LcOpenFile(status, notificationStatus) ==
    IF notificationStatus \in {"STATUS_PORT_DISCONNECTED", "STATUS_TIMEOUT"}
    THEN status
    ELSE notificationStatus

\* The handles the client replies with; 0 is NULL.
ClientHandles == 0..2

\* What LcCloseFileHandle meets: "ok", a failed allocation of the
\* notification, or a failure of FltSendMessage.
CloseOutcomes == {"ok", "alloc"} \cup FltSendMessageFailures

\* LcCloseFileHandle(FileHandle): the status it returns.
LcCloseFileHandle(ClientPort, outcome) ==
    IF outcome = "alloc" THEN "STATUS_INSUFFICIENT_RESOURCES"
    ELSE IF ~ClientPort THEN "STATUS_PORT_DISCONNECTED"
    ELSE IF outcome = "ok" THEN "STATUS_SUCCESS"
    ELSE outcome

\* A __finally block that gives the handle back only when it was duplicated.
ClosedInFinally_OnlyOnSuccess(FileHandle, duplicateStatus) ==
    FileHandle # 0 /\ NT_SUCCESS(duplicateStatus)

\* The __finally block of LcOpenFileInUserMode: whether LcCloseFileHandle is
\* called for reply->FileHandle.
ClosedInFinally(FileHandle, duplicateStatus) == FileHandle # 0

\* The locals of LcOpenFile and LcOpenFileInUserMode before LcOpenFile runs,
\* the client port, and the notifications passed to FltSendMessage.
\* fileHandle and Handle: "NULL", "direct" (opened by ZwOpenFile) or
\* "duplicate" (made by ZwDuplicateObject).  closeStatus is what
\* LcCloseFileHandle returned, and read the handle LcFetchRemoteFile has read
\* the source through.
OpenerStart(path, port) ==
    [pc |-> "start", FilePath |-> path, ClientPort |-> port,
     openStatus |-> "NONE", sendStatus |-> "NONE", duplicateStatus |-> "NONE",
     notificationStatus |-> "NONE", status |-> "STATUS_SUCCESS",
     reply |-> 0, fileHandle |-> "NULL", Handle |-> "NULL",
     inUserMode |-> FALSE, notifications |-> <<>>,
     closeStatus |-> "NONE", read |-> "NONE"]

InitOpen ==
    /\ InitI
    /\ untagCall = NoUntagCall
    /\ engine = NoEngine
    /\ config = NoConfig
    /\ query = NoQuery
    /\ session = NoSession
    /\ request = NoRequest
    /\ contexts = NoContexts
    /\ reparse = NoReparse
    /\ chunking = NoChunking
    /\ gate = NoGate
    /\ sync = NoSync
    /\ helper = NoHelper
    /\ opener \in {OpenerStart(path, port) : path \in SourceFiles, port \in BOOLEAN}

\* LcCommunicationPortConnect: the client connects to the port.
PortConnect ==
    /\ opener.pc # "none"
    /\ ~opener.ClientPort
    /\ opener' = [opener EXCEPT !.ClientPort = TRUE]
    /\ UNCHANGED <<ivars, untagCall, engine, config, query, session, request, contexts, reparse, chunking, gate, sync, helper>>

\* LcCommunicationPortDisconnect: FltCloseClientPort.  A message waiting for
\* its reply is completed with STATUS_PORT_DISCONNECTED.
PortDisconnect ==
    /\ opener.pc # "none"
    /\ opener.ClientPort
    /\ opener' = IF opener.pc = "waiting"
                 THEN [opener EXCEPT !.ClientPort = FALSE,
                                     !.sendStatus = "STATUS_PORT_DISCONNECTED",
                                     !.notificationStatus = "STATUS_PORT_DISCONNECTED",
                                     !.pc = "map"]
                 ELSE [opener EXCEPT !.ClientPort = FALSE]
    /\ UNCHANGED <<ivars, untagCall, engine, config, query, session, request, contexts, reparse, chunking, gate, sync, helper>>

\* LcOpenFile: ZwOpenFile.
OpenDirect ==
    /\ opener.pc = "start"
    /\ \E s \in ZwOpenFileOutcomes :
         opener' = [opener EXCEPT
                       !.openStatus = s, !.status = s,
                       !.fileHandle = IF NT_SUCCESS(s) THEN "direct" ELSE "NULL",
                       !.pc = IF ~NT_SUCCESS(s) /\ s = "STATUS_ACCESS_DENIED"
                              THEN "usermode" ELSE "finally"]
    /\ UNCHANGED <<ivars, untagCall, engine, config, query, session, request, contexts, reparse, chunking, gate, sync, helper>>

\* LcOpenFileInUserMode up to FltSendMessage: the buffers are allocated and
\* LcSendMessageToClient(OpenFileInUserMode, ...) checks the port and sends.
OpenSend ==
    /\ opener.pc = "usermode"
    /\ \E allocOk \in BOOLEAN, sent \in {"STATUS_PENDING"} \cup FltSendMessageFailures :
         /\ (~allocOk \/ ~opener.ClientPort) => sent = "STATUS_PENDING"
         /\ ~opener.ClientPort => allocOk
         /\ opener' =
              IF ~allocOk
              THEN [opener EXCEPT !.inUserMode = TRUE, !.pc = "map",
                       !.notificationStatus = "STATUS_INSUFFICIENT_RESOURCES"]
              ELSE IF ~opener.ClientPort
              THEN [opener EXCEPT !.inUserMode = TRUE, !.pc = "map",
                       !.sendStatus = "STATUS_PORT_DISCONNECTED",
                       !.notificationStatus = "STATUS_PORT_DISCONNECTED"]
              ELSE IF sent # "STATUS_PENDING"
              THEN [opener EXCEPT !.inUserMode = TRUE, !.pc = "map",
                       !.notifications = Append(@, [Type |-> "OpenFileInUserMode",
                                                    FileHandle |-> 0]),
                       !.sendStatus = sent, !.notificationStatus = sent]
              ELSE [opener EXCEPT !.inUserMode = TRUE, !.pc = "waiting",
                       !.notifications = Append(@, [Type |-> "OpenFileInUserMode",
                                                    FileHandle |-> 0])]
    /\ UNCHANGED <<ivars, untagCall, engine, config, query, session, request, contexts, reparse, chunking, gate, sync, helper>>

\* The client replies with the handle it opened, or with NULL.
ClientReplies ==
    /\ opener.pc = "waiting"
    /\ \E handle \in ClientHandles :
         opener' = [opener EXCEPT !.reply = handle, !.sendStatus = "STATUS_SUCCESS",
                                  !.pc = "duplicate"]
    /\ UNCHANGED <<ivars, untagCall, engine, config, query, session, request, contexts, reparse, chunking, gate, sync, helper>>

\* LcOpenFileInUserMode: ZwDuplicateObject, then the __finally block, where
\* LcCloseFileHandle(reply->FileHandle) notifies the client when the handle
\* is not NULL; the notification reaches FltSendMessage when it was allocated
\* and the port is connected.
OpenDuplicate ==
    /\ opener.pc = "duplicate"
    /\ \E s \in ZwDuplicateObjectOutcomes(opener.reply), outcome \in CloseOutcomes :
         LET closed == ClosedInFinally(opener.reply, s)
             close  == LcCloseFileHandle(opener.ClientPort, outcome)
             passed == closed /\ close \notin {"STATUS_INSUFFICIENT_RESOURCES",
                                               "STATUS_PORT_DISCONNECTED"}
         IN
         /\ ~closed => outcome = "ok"
         /\ (~opener.ClientPort) => outcome \in {"ok", "alloc"}
         /\ opener' = [opener EXCEPT
                       !.duplicateStatus = s, !.notificationStatus = s,
                       !.fileHandle = IF NT_SUCCESS(s) THEN "duplicate" ELSE @,
                       !.closeStatus = IF closed THEN close ELSE @,
                       !.notifications =
                           IF passed
                           THEN Append(@, [Type |-> "CloseFileHandle",
                                           FileHandle |-> opener.reply])
                           ELSE @,
                       !.pc = "map"]
    /\ UNCHANGED <<ivars, untagCall, engine, config, query, session, request, contexts, reparse, chunking, gate, sync, helper>>

\* LcOpenFile: the status after LcOpenFileInUserMode returned.
OpenMap ==
    /\ opener.pc = "map"
    /\ opener' = [opener EXCEPT
                     !.status = LcOpenFile(opener.status, opener.notificationStatus),
                     !.pc = "finally"]
    /\ UNCHANGED <<ivars, untagCall, engine, config, query, session, request, contexts, reparse, chunking, gate, sync, helper>>

\* LcOpenFile, __finally: the handle is handed out on success and closed
\* otherwise.
OpenFinally ==
    /\ opener.pc = "finally"
    /\ opener' = [opener EXCEPT
                     !.Handle = IF NT_SUCCESS(opener.status) THEN opener.fileHandle ELSE "NULL",
                     !.fileHandle = "NULL",
                     !.pc = "done"]
    /\ UNCHANGED <<ivars, untagCall, engine, config, query, session, request, contexts, reparse, chunking, gate, sync, helper>>

\* LcFetchRemoteFile after LcOpenFile returned: the source is read through
\* the handle, and the __finally block closes it with ZwClose.
SourceClose ==
    /\ opener.pc = "done"
    /\ opener' = [opener EXCEPT !.read = opener.Handle, !.Handle = "NULL",
                                !.pc = "closed"]
    /\ UNCHANGED <<ivars, untagCall, engine, config, query, session, request, contexts, reparse, chunking, gate, sync, helper>>

NextOpen ==
    \/ PortConnect
    \/ PortDisconnect
    \/ OpenDirect
    \/ OpenSend
    \/ ClientReplies
    \/ OpenDuplicate
    \/ OpenMap
    \/ OpenFinally
    \/ SourceClose

SpecOpen == InitOpen /\ [][NextOpen]_vars

\* --------------- SpecQuery: Pre/PostQueryInformationOperationCallback (Operations.c)

\* Largest file size of a queried file, local or in the stream context.
MaxQuerySize == 2

\* FILE_INFORMATION_CLASS values of a query; FileNameInformation stands for
\* the classes the callbacks have no case for.
InformationClasses ==
    {"FileAllInformation", "FileStandardInformation", "FileEndOfFileInformation",
     "FileNetworkOpenInformation", "FileBasicInformation",
     "FileAttributeTagInformation", "FileNameInformation"}

\* Classes whose buffer has an EndOfFile field.
SizeClasses ==
    {"FileAllInformation", "FileStandardInformation", "FileEndOfFileInformation",
     "FileNetworkOpenInformation"}

\* Classes whose buffer has a FileAttributes field.
AttributeClasses ==
    {"FileAllInformation", "FileNetworkOpenInformation", "FileBasicInformation",
     "FileAttributeTagInformation"}

\* LC_FILE_ATTRIBUTES
LC_FILE_ATTRIBUTES == {"OFFLINE", "REPARSE_POINT"}

\* Why the pre-operation callback ignores a request: an I/O generated by a
\* minifilter, an FS filter operation, a reissued I/O.
IgnoredIo == {"GENERATED_IO", "FS_FILTER_OPERATION", "REISSUED_IO"}

\* What the layers below answer to a query.
QueryOutcomes == {"STATUS_SUCCESS", "STATUS_BUFFER_OVERFLOW", "STATUS_ACCESS_DENIED"}

\* Files a query is made on: with or without the stub mark, with or without
\* a stream context, of any local size.
QueryFiles ==
    {[marked |-> marked, context |-> context,
      RemoteFileSize |-> IF context THEN size ELSE 0,
      EndOfFile |-> eof,
      FileAttributes |-> attrs \cup (IF marked THEN LC_FILE_ATTRIBUTES ELSE {})] :
        marked \in BOOLEAN, context \in BOOLEAN, size \in 0..MaxQuerySize,
        eof \in 0..MaxQuerySize, attrs \in SUBSET {"ARCHIVE", "OFFLINE"}}

\* The information buffer as the file system fills it; EndOfFile is -1 and
\* FileAttributes empty in a class that has no such field.
InfoBuffer(class, file) ==
    [EndOfFile |-> IF class \in SizeClasses THEN file.EndOfFile ELSE -1,
     FileAttributes |-> IF class \in AttributeClasses THEN file.FileAttributes ELSE {}]

\* PreQueryInformationOperationCallback: the callback status.
PreQueryInformationOperationCallback(class, ignored) ==
    IF ignored # "none" THEN "FLT_PREOP_SUCCESS_NO_CALLBACK"
    ELSE IF class \in {"FileAllInformation", "FileStandardInformation",
                       "FileEndOfFileInformation", "FileNetworkOpenInformation"}
    THEN "FLT_PREOP_SYNCHRONIZE"
    ELSE "FLT_PREOP_SUCCESS_NO_CALLBACK"

\* The switch of PostQueryInformationOperationCallback on the buffer, with
\* the stream context found.
FixQueryBuffer_SizeUntouched(class, buffer, remoteFileSize) ==
    IF class \in AttributeClasses
    THEN [buffer EXCEPT !.FileAttributes = @ \ LC_FILE_ATTRIBUTES]
    ELSE buffer

FixQueryBuffer(class, buffer, remoteFileSize) ==
    LET size == IF buffer.EndOfFile = 0 THEN remoteFileSize ELSE buffer.EndOfFile IN
    CASE class \in {"FileAllInformation", "FileNetworkOpenInformation"} ->
            [EndOfFile |-> size,
             FileAttributes |-> buffer.FileAttributes \ LC_FILE_ATTRIBUTES]
      [] class \in {"FileBasicInformation", "FileAttributeTagInformation"} ->
            [buffer EXCEPT !.FileAttributes = @ \ LC_FILE_ATTRIBUTES]
      [] class \in {"FileStandardInformation", "FileEndOfFileInformation"} ->
            [buffer EXCEPT !.EndOfFile = size]
      [] OTHER -> buffer

\* PostQueryInformationOperationCallback: the buffer the caller gets.
PostQueryInformationOperationCallback(class, status, draining, file, buffer) ==
    IF draining THEN buffer
    ELSE IF ~NT_SUCCESS(status) /\ status # "STATUS_BUFFER_OVERFLOW" THEN buffer
    ELSE IF ~file.context THEN buffer
    ELSE FixQueryBuffer(class, buffer, file.RemoteFileSize)

NoBuffer == [EndOfFile |-> -1, FileAttributes |-> {}]

InitQuery ==
    /\ InitI
    /\ untagCall = NoUntagCall
    /\ engine = NoEngine
    /\ config = NoConfig
    /\ opener = NoOpener
    /\ session = NoSession
    /\ request = NoRequest
    /\ contexts = NoContexts
    /\ reparse = NoReparse
    /\ chunking = NoChunking
    /\ gate = NoGate
    /\ sync = NoSync
    /\ helper = NoHelper
    /\ query \in {[pc |-> "start", file |-> file, class |-> "none",
                   ignored |-> "none", callbackStatus |-> "NONE",
                   status |-> "NONE", draining |-> FALSE,
                   lower |-> NoBuffer, buffer |-> NoBuffer] : file \in QueryFiles}

\* A query arrives and PreQueryInformationOperationCallback runs.
PreQuery ==
    /\ query.pc = "start"
    /\ \E class \in InformationClasses, ignored \in {"none"} \cup IgnoredIo :
         query' = [query EXCEPT
                      !.class = class, !.ignored = ignored,
                      !.callbackStatus = PreQueryInformationOperationCallback(class, ignored),
                      !.pc = "lower"]
    /\ UNCHANGED <<ivars, untagCall, engine, config, opener, session, request, contexts, reparse, chunking, gate, sync, helper>>

\* The layers below complete the query.  STATUS_BUFFER_OVERFLOW is what
\* FileAllInformation gets when the name does not fit.
LowerQuery ==
    /\ query.pc = "lower"
    /\ \E status \in QueryOutcomes :
         /\ status = "STATUS_BUFFER_OVERFLOW" => query.class = "FileAllInformation"
         /\ LET buffer == IF status = "STATUS_ACCESS_DENIED" THEN NoBuffer
                          ELSE InfoBuffer(query.class, query.file) IN
            query' = [query EXCEPT
                         !.status = status, !.lower = buffer, !.buffer = buffer,
                         !.pc = IF query.callbackStatus = "FLT_PREOP_SYNCHRONIZE"
                                THEN "post" ELSE "done"]
    /\ UNCHANGED <<ivars, untagCall, engine, config, opener, session, request, contexts, reparse, chunking, gate, sync, helper>>

\* PostQueryInformationOperationCallback runs; draining: the instance is
\* being torn down (FLTFL_POST_OPERATION_DRAINING).
PostQuery ==
    /\ query.pc = "post"
    /\ \E draining \in BOOLEAN :
         query' = [query EXCEPT
                      !.draining = draining,
                      !.buffer = PostQueryInformationOperationCallback(
                                     query.class, query.status, draining,
                                     query.file, query.buffer),
                      !.pc = "done"]
    /\ UNCHANGED <<ivars, untagCall, engine, config, opener, session, request, contexts, reparse, chunking, gate, sync, helper>>

NextQuery ==
    \/ PreQuery
    \/ LowerQuery
    \/ PostQuery

SpecQuery == InitQuery /\ [][NextQuery]_vars

\* ------------------- SpecSession: the client connection (Communication.c)

\* How many connections are attempted or closed in a run (SpecSession).
MaxSessionEvents == 3

\* The processes that connect to the communication port.
ClientPids == {"helper", "app"}

\* LcAddTrustedProcess(ProcessId): the list afterwards; a process already in
\* the list is not added again.
TrustedAfterAdd(list, pid) == list \cup {pid}

\* LcRemoveTrustedProcess(ProcessId): the list afterwards.
TrustedAfterRemove(list, pid) == list \ {pid}

\* The connection variables of Communication.c (FALSE and "NULL": NULL).
\* connected is the filter manager's side: a client connection exists, owned
\* by process client.  lastSend records the last LcSendMessageToClient, and
\* events what the port's callbacks have done so far.
NoConnection ==
    [pc |-> "idle", ClientPort |-> FALSE, ClientProcessId |-> "NULL",
     ClientProcessHandle |-> FALSE, SystemProcessHandle |-> FALSE,
     connected |-> FALSE, client |-> "NULL", lastSend |-> "NONE",
     events |-> <<>>]

\* A reset that leaves the client among the trusted processes.
LcResetConnectionVariables_KeepsTrusted(s, trusted) ==
    [session |-> [s EXCEPT !.ClientProcessHandle = FALSE,
                           !.SystemProcessHandle = FALSE,
                           !.ClientProcessId = "NULL"],
     trusted |-> trusted]

\* LcResetConnectionVariables: the connection variables and the trusted list
\* afterwards.  ClientPort is not among the variables it resets.
LcResetConnectionVariables(s, trusted) ==
    [session |-> [s EXCEPT !.ClientProcessHandle = FALSE,
                           !.SystemProcessHandle = FALSE,
                           !.ClientProcessId = "NULL"],
     trusted |-> IF s.ClientProcessId # "NULL"
                 THEN TrustedAfterRemove(trusted, s.ClientProcessId)
                 ELSE trusted]

InitSession ==
    /\ InitI
    /\ untagCall = NoUntagCall
    /\ engine = NoEngine
    /\ config = NoConfig
    /\ opener = NoOpener
    /\ query = NoQuery
    /\ request = NoRequest
    /\ contexts = NoContexts
    /\ reparse = NoReparse
    /\ chunking = NoChunking
    /\ gate = NoGate
    /\ sync = NoSync
    /\ helper = NoHelper
    /\ session = NoConnection

\* The __finally block of LcCommunicationPortConnect on a failure: the
\* connection is refused and the filter manager closes the port it offered.
ConnectFails(s) ==
    LET r == LcResetConnectionVariables(s, TrustedProccessList) IN
    /\ session' = [r.session EXCEPT !.pc = "idle", !.client = "NULL",
                                    !.events = Append(@, "refused")]
    /\ TrustedProccessList' = r.trusted

\* LcCommunicationPortConnect is called for a process that connects; the
\* filter manager allows one connection at a time.
ConnectBegin ==
    /\ session.pc = "idle"
    /\ ~session.connected
    /\ Len(session.events) < MaxSessionEvents
    /\ \E pid \in ClientPids :
         session' = [session EXCEPT !.pc = "open_client", !.client = pid,
                                    !.ClientPort = TRUE, !.ClientProcessId = pid]
    /\ UNCHANGED <<ivars, untagCall, engine, config, opener, query, request, contexts, reparse, chunking, gate, sync, helper>>

\* ZwOpenProcess(&ClientProcessHandle, ...)
ConnectOpenClient ==
    /\ session.pc = "open_client"
    /\ \E ok \in BOOLEAN :
         IF ok
         THEN /\ session' = [session EXCEPT !.ClientProcessHandle = TRUE,
                                            !.pc = "open_system"]
              /\ UNCHANGED TrustedProccessList
         ELSE ConnectFails(session)
    /\ UNCHANGED <<files, streamContext, FileLocksList, sys, thr, untagCall,
                   engine, config, opener, query, request, contexts, reparse, chunking, gate, sync, helper>>

\* ObOpenObjectByPointer(PsInitialSystemProcess, ..., &SystemProcessHandle)
ConnectOpenSystem ==
    /\ session.pc = "open_system"
    /\ \E ok \in BOOLEAN :
         IF ok
         THEN /\ session' = [session EXCEPT !.SystemProcessHandle = TRUE,
                                            !.pc = "add_trusted"]
              /\ UNCHANGED TrustedProccessList
         ELSE ConnectFails(session)
    /\ UNCHANGED <<files, streamContext, FileLocksList, sys, thr, untagCall,
                   engine, config, opener, query, request, contexts, reparse, chunking, gate, sync, helper>>

\* LcAddTrustedProcess(ClientProcessId), and the return of the callback.
ConnectAddTrusted ==
    /\ session.pc = "add_trusted"
    /\ \E allocOk \in BOOLEAN :
         IF allocOk
         THEN /\ session' = [session EXCEPT !.pc = "idle", !.connected = TRUE,
                                            !.events = Append(@, "connected")]
              /\ TrustedProccessList' =
                     TrustedAfterAdd(TrustedProccessList, session.ClientProcessId)
         ELSE ConnectFails(session)
    /\ UNCHANGED <<files, streamContext, FileLocksList, sys, thr, untagCall,
                   engine, config, opener, query, request, contexts, reparse, chunking, gate, sync, helper>>

\* LcCommunicationPortDisconnect: FltCloseClientPort(Globals.Filter, &ClientPort)
PortDisconnectClose ==
    /\ session.pc = "idle"
    /\ session.connected
    /\ session' = [session EXCEPT !.pc = "reset", !.connected = FALSE,
                                  !.ClientPort = FALSE]
    /\ UNCHANGED <<ivars, untagCall, engine, config, opener, query, request, contexts, reparse, chunking, gate, sync, helper>>

\* LcCommunicationPortDisconnect: LcResetConnectionVariables()
PortDisconnectReset ==
    /\ session.pc = "reset"
    /\ LET r == LcResetConnectionVariables(session, TrustedProccessList) IN
       /\ session' = [r.session EXCEPT !.pc = "idle", !.client = "NULL",
                                       !.events = Append(@, "disconnected")]
       /\ TrustedProccessList' = r.trusted
    /\ UNCHANGED <<files, streamContext, FileLocksList, sys, thr, untagCall,
                   engine, config, opener, query, request, contexts, reparse, chunking, gate, sync, helper>>

\* LcSendMessageToClient, called by any thread at any time: without a
\* ClientPort it returns STATUS_PORT_DISCONNECTED; otherwise FltSendMessage is
\* handed &ClientPort, the port of the connection ("sent") or the port of a
\* refused connection, which the filter manager has closed ("stale port").
SendToClient ==
    /\ session.pc # "none"
    /\ session' = [session EXCEPT !.lastSend =
           IF ~session.ClientPort THEN "STATUS_PORT_DISCONNECTED"
           ELSE IF session.connected \/ session.pc \in {"open_client", "open_system", "add_trusted"}
           THEN "sent"
           ELSE "stale port"]
    /\ UNCHANGED <<ivars, untagCall, engine, config, opener, query, request, contexts, reparse, chunking, gate, sync, helper>>

NextSession ==
    \/ ConnectBegin
    \/ ConnectOpenClient
    \/ ConnectOpenSystem
    \/ ConnectAddTrusted
    \/ PortDisconnectClose
    \/ PortDisconnectReset
    \/ SendToClient

SpecSession == InitSession /\ [][NextSession]_vars

\* ------------------ SpecCreate: PreCreateOperationCallback (Operations.c)

\* DefaultCreateOptions and DefaultShareAccess.
DefaultCreateOptions ==
    {"FILE_OPEN_REPARSE_POINT", "FILE_OPEN_FOR_BACKUP_INTENT", "FILE_RANDOM_ACCESS",
     "FILE_WRITE_THROUGH"}

DefaultShareAccess == {"FILE_SHARE_READ", "FILE_SHARE_WRITE"}

\* The low 24 bits of Parameters.Create.Options an open arrives with.
CreateOptionSets ==
    {target \cup canonical \cup other :
        target \in SUBSET {"FILE_DIRECTORY_FILE", "FILE_OPEN_BY_FILE_ID"},
        canonical \in {{}, {"FILE_OPEN_REPARSE_POINT"},
                       {"FILE_OPEN_FOR_BACKUP_INTENT", "FILE_RANDOM_ACCESS"},
                       DefaultCreateOptions},
        other \in SUBSET {"FILE_NON_DIRECTORY_FILE"}}

\* The high 8 bits of Parameters.Create.Options.
CreateDispositions ==
    {"FILE_SUPERSEDE", "FILE_OPEN", "FILE_CREATE", "FILE_OPEN_IF", "FILE_OVERWRITE",
     "FILE_OVERWRITE_IF"}

ShareAccessSets ==
    {{}, {"FILE_SHARE_READ"}, {"FILE_SHARE_DELETE"}, DefaultShareAccess,
     DefaultShareAccess \cup {"FILE_SHARE_DELETE"}}

\* What else the callback reads of the request: a missing target file
\* object, FO_VOLUME_OPEN, SL_OPEN_PAGING_FILE, the IRP paging flags, and the
\* flags of generated and reissued I/O.  A create is an IRP operation, so
\* FLT_IS_FS_FILTER_OPERATION is false.  At most one of them is set.
RequestFlags ==
    {"NO_TARGET_FILE_OBJECT", "FO_VOLUME_OPEN", "SL_OPEN_PAGING_FILE", "IRP_PAGING_IO",
     "IRP_SYNCHRONOUS_PAGING_IO", "FLTFL_CALLBACK_DATA_GENERATED_IO",
     "FLTFL_CALLBACK_DATA_REISSUED_IO"}

RequestFlagSets == {{}} \cup {{f} : f \in RequestFlags}

\* The request as PreCreateOperationCallback finds it.
CreateRequests ==
    [Options : CreateOptionSets, Disposition : CreateDispositions,
     ShareAccess : ShareAccessSets, Flags : RequestFlagSets, Dirty : {FALSE}]

\* A filter that lets FILE_CREATE through.
IsCandidate_AnyDisposition(req) ==
    /\ "NO_TARGET_FILE_OBJECT" \notin req.Flags
    /\ req.Options \cap {"FILE_DIRECTORY_FILE", "FILE_OPEN_BY_FILE_ID"} = {}
    /\ req.Flags = {}

\* The filters of PreCreateOperationCallback on the request itself.
IsCandidate(req) ==
    /\ "NO_TARGET_FILE_OBJECT" \notin req.Flags
    /\ ~ \/ "FILE_DIRECTORY_FILE" \in req.Options
         \/ "FILE_OPEN_BY_FILE_ID" \in req.Options
         \/ "FO_VOLUME_OPEN" \in req.Flags
         \/ "SL_OPEN_PAGING_FILE" \in req.Flags
         \/ "IRP_PAGING_IO" \in req.Flags
         \/ "IRP_SYNCHRONOUS_PAGING_IO" \in req.Flags
    /\ ~ \/ "FLTFL_CALLBACK_DATA_GENERATED_IO" \in req.Flags
         \/ "FLTFL_CALLBACK_DATA_REISSUED_IO" \in req.Flags
    /\ req.Disposition # "FILE_CREATE"

\* A widening that stores the default flags instead of adding them.
WidenForTrusted_Replaces(req) ==
    [req EXCEPT !.Options = DefaultCreateOptions,
                !.ShareAccess = DefaultShareAccess,
                !.Dirty = TRUE]

\* The branch for a trusted process: the default create options and share
\* access are added when some are missing, and the data is marked dirty.
WidenForTrusted(req) ==
    IF \/ req.Options \cap DefaultCreateOptions # DefaultCreateOptions
       \/ req.ShareAccess \cap DefaultShareAccess # DefaultShareAccess
    THEN [req EXCEPT !.Options = @ \cup DefaultCreateOptions,
                     !.ShareAccess = @ \cup DefaultShareAccess,
                     !.Dirty = TRUE]
    ELSE req

\* What the allocation of the completion context and the file name query do.
ContextOutcomes == {"ok", "alloc", "name"}

\* PreCreateOperationCallback: the callback status, the request afterwards
\* and the completion context ({}: none).
PreCreateOperationCallback(req, operationMode, trusted, outcome) ==
    LET passThrough == [callbackStatus |-> "FLT_PREOP_SUCCESS_NO_CALLBACK",
                        request |-> req, completionContext |-> {}]
    IN  IF ~IsCandidate(req) THEN passThrough
        ELSE IF operationMode = {} THEN passThrough
        ELSE IF trusted THEN [passThrough EXCEPT !.request = WidenForTrusted(req)]
        ELSE IF outcome # "ok" THEN passThrough
        ELSE [callbackStatus |-> "FLT_PREOP_SUCCESS_WITH_CALLBACK",
              request |-> req,
              completionContext |-> {[OperationMode |-> operationMode]}]

\* An open arrives from a process, trusted or not, in any operation mode.
InitCreate ==
    /\ files = [f \in Files |-> StubFile]
    /\ streamContext = [f \in Files |-> FALSE]
    /\ FileLocksList = <<>>
    /\ TrustedProccessList \in {{}, {"helper"}}
    /\ sys = "ok"
    /\ thr = [t \in Threads |-> Locals("none", "a")]
    /\ untagCall = NoUntagCall
    /\ engine = NoEngine
    /\ config = NoConfig
    /\ opener = NoOpener
    /\ query = NoQuery
    /\ session = NoSession
    /\ contexts = NoContexts
    /\ reparse = NoReparse
    /\ chunking = NoChunking
    /\ gate = NoGate
    /\ sync = NoSync
    /\ helper = NoHelper
    /\ request \in {[pc |-> "pre", Data |-> req, thread |-> t, operationMode |-> mode,
                     before |-> req, callbackStatus |-> "NONE",
                     completionContext |-> {}, outcome |-> "NONE"] :
                       req \in CreateRequests, t \in Threads, mode \in Modes}

\* PreCreateOperationCallback runs on the request; outcome is recorded when
\* the callback got as far as the completion context.
CreatePreCallback ==
    /\ request.pc = "pre"
    /\ \E outcome \in ContextOutcomes :
         LET trusted == LcIsProcessTrusted(PidOf(request.thread), TrustedProccessList)
             r       == PreCreateOperationCallback(request.Data, request.operationMode,
                                                   trusted, outcome)
             reached == /\ IsCandidate(request.Data)
                        /\ request.operationMode # {}
                        /\ ~trusted
         IN  /\ ~reached => outcome = "ok"
             /\ request' = [request EXCEPT !.pc = "done", !.Data = r.request,
                               !.callbackStatus = r.callbackStatus,
                               !.completionContext = r.completionContext,
                               !.outcome = IF reached THEN outcome ELSE "NONE"]
    /\ UNCHANGED <<ivars, untagCall, engine, config, opener, query, session, contexts, reparse, chunking, gate, sync, helper>>

NextCreate == CreatePreCallback

SpecCreate == InitCreate /\ [][NextCreate]_vars

\* ------------------------------- SpecContext: stream contexts (Context.c)

\* The threads that open, read and write one stub, and how many operations
\* each of them runs.
NumObservers == 3

MaxObserverOps == 2

Observers == 1..NumObservers

\* What the stub mark holds: the size of the remote file and whether the
\* client fetches it; the remote path is one string.
MarkData ==
    {[RemoteFileSize |-> 1, UseCustomHandler |-> FALSE],
     [RemoteFileSize |-> 2, UseCustomHandler |-> TRUE]}

\* A context as FltAllocateContext and LcCreateStreamContext leave it: one
\* reference, held by the caller, and the fields copied from the mark.
NewContext(data) ==
    [RemoteFileSize |-> data.RemoteFileSize, RemoteFilePath |-> "remote",
     UseCustomHandler |-> data.UseCustomHandler,
     refs |-> 1, attached |-> FALSE, deleted |-> FALSE, freed |-> FALSE]

\* The fields of LC_STREAM_CONTEXT.
Fields(c) == <<c.UseCustomHandler, c.RemoteFileSize, c.RemoteFilePath>>

\* LcContextCleanup, called when the last reference is gone, then the
\* context is freed.
LcContextCleanup(c) == [c EXCEPT !.RemoteFilePath = "FREED", !.freed = TRUE]

\* FltReleaseContext(context); context 0 is NULL.
FltReleaseContext(pool, id) ==
    IF id = 0 THEN pool
    ELSE IF pool[id].refs = 1
    THEN [pool EXCEPT ![id] = LcContextCleanup([@ EXCEPT !.refs = 0])]
    ELSE [pool EXCEPT ![id].refs = @ - 1]

\* The contexts attached to the stream.
Attached(pool) == {i \in 1..Len(pool) : pool[i].attached}

\* FltGetStreamContext: the attached context, referenced for the caller.
FltGetStreamContext(pool) ==
    IF Attached(pool) = {}
    THEN [status |-> "STATUS_NOT_FOUND", context |-> 0, pool |-> pool]
    ELSE LET c == CHOOSE i \in Attached(pool) : TRUE
         IN  [status |-> "STATUS_SUCCESS", context |-> c,
              pool |-> [pool EXCEPT ![c].refs = @ + 1]]

\* What can fail in LcCreateStreamContext: FltAllocateContext ("alloc") or
\* LcCopyUnicodeString ("copy").
CreateContextOutcomes == {"ok", "alloc", "copy"}

\* LcCreateStreamContext.  When the copy of the path fails the context is
\* handed to FltDeleteContext, which does not drop the caller's reference.
LcCreateStreamContext(pool, data, outcome) ==
    IF outcome = "alloc"
    THEN [status |-> "STATUS_INSUFFICIENT_RESOURCES", context |-> 0, pool |-> pool]
    ELSE IF outcome = "copy"
    THEN [status |-> "STATUS_INSUFFICIENT_RESOURCES", context |-> 0,
          pool |-> Append(pool, [NewContext(data) EXCEPT !.RemoteFilePath = "NULL",
                                                         !.deleted = TRUE])]
    ELSE [status |-> "STATUS_SUCCESS", context |-> Len(pool) + 1,
          pool |-> Append(pool, NewContext(data))]

\* What FltSetStreamContext can do: set or keep ("ok"), or refuse the call,
\* as it does for an instance that is being torn down ("refused").
SetContextOutcomes == {"ok", "refused"}

\* FltSetStreamContext(..., FLT_SET_CONTEXT_KEEP_IF_EXISTS, context, &oldContext):
\* the stream takes a reference on the context it accepts; a context that is
\* already there is kept and returned referenced.
FltSetStreamContext(pool, c, outcome) ==
    IF outcome = "refused"
    THEN [status |-> "STATUS_FLT_DELETING_OBJECT", oldContext |-> 0, pool |-> pool]
    ELSE IF Attached(pool) = {}
    THEN [status |-> "STATUS_SUCCESS", oldContext |-> 0,
          pool |-> [pool EXCEPT ![c].attached = TRUE, ![c].refs = @ + 1]]
    ELSE LET old == CHOOSE i \in Attached(pool) : TRUE
         IN  [status |-> "STATUS_FLT_CONTEXT_ALREADY_DEFINED", oldContext |-> old,
              pool |-> [pool EXCEPT ![old].refs = @ + 1]]

\* FltDeleteStreamContext(Instance, FileObject, NULL): the attached context is
\* detached and the reference of the stream dropped.
FltDeleteStreamContext(pool) ==
    IF Attached(pool) = {}
    THEN [status |-> "STATUS_NOT_FOUND", pool |-> pool]
    ELSE LET c == CHOOSE i \in Attached(pool) : TRUE
         IN  [status |-> "STATUS_SUCCESS",
              pool |-> FltReleaseContext(
                           [pool EXCEPT ![c].attached = FALSE, ![c].deleted = TRUE], c)]

\* The locals of an observer between two operations.
IdleObserver(ops) ==
    [pc |-> "idle", ops |-> ops, context |-> 0, contextCreated |-> FALSE,
     data |-> {}, status |-> "STATUS_SUCCESS"]

\* One stub that nobody has opened yet.
InitContext ==
    /\ \E data \in MarkData :
         contexts = [pool |-> <<>>, file |-> StubFile, mark |-> data,
                     obs |-> [o \in Observers |-> IdleObserver(0)]]
    /\ files = [f \in Files |-> StubFile]
    /\ streamContext = [f \in Files |-> FALSE]
    /\ FileLocksList = <<>>
    /\ TrustedProccessList = {}
    /\ sys = "ok"
    /\ thr = [t \in Threads |-> Locals("none", "a")]
    /\ untagCall = NoUntagCall
    /\ engine = NoEngine
    /\ config = NoConfig
    /\ opener = NoOpener
    /\ query = NoQuery
    /\ session = NoSession
    /\ request = NoRequest
    /\ reparse = NoReparse
    /\ chunking = NoChunking
    /\ gate = NoGate
    /\ sync = NoSync
    /\ helper = NoHelper

\* The observer o ends its operation: its locals are gone.
EndOperation(o, pool) ==
    contexts' = [contexts EXCEPT !.pool = pool,
                                 !.obs[o] = IdleObserver(contexts.obs[o].ops + 1)]

\* An open of the stub by a process that is not trusted met the mark and was
\* re-issued: PostCreateOperationCallback is about to read the mark.
ObserverOpen(o) ==
    /\ contexts.obs[o].pc = "idle"
    /\ contexts.obs[o].ops < MaxObserverOps
    /\ contexts.file.ReparseTag = "LC"
    /\ contexts' = [contexts EXCEPT !.obs[o].pc = "getrp"]
    /\ UNCHANGED <<ivars, untagCall, engine, config, opener, query, session, request, reparse, chunking, gate, sync, helper>>

\* LcGetReparsePointData(FltObjects, &fileSize, &remotePath, &useCustomHandler)
ObserverGetReparse(o) ==
    /\ contexts.obs[o].pc = "getrp"
    /\ \E fault \in ReparseFaults :
         LET s == LcGetReparsePointData(contexts.file, fault) IN
         /\ fault # "none" => contexts.file.ReparseTag = "LC"
         /\ IF NT_SUCCESS(s)
            THEN contexts' = [contexts EXCEPT !.obs[o].pc = "find",
                                              !.obs[o].data = {contexts.mark}]
            ELSE EndOperation(o, contexts.pool)
    /\ UNCHANGED <<ivars, untagCall, engine, config, opener, query, session, request, reparse, chunking, gate, sync, helper>>

\* LcFindOrCreateStreamContext: FltGetStreamContext.
ObserverFind(o) ==
    /\ contexts.obs[o].pc = "find"
    /\ LET r == FltGetStreamContext(contexts.pool) IN
       IF NT_SUCCESS(r.status)
       THEN contexts' = [contexts EXCEPT !.pool = r.pool, !.obs[o].pc = "cr_hold",
                                         !.obs[o].context = r.context,
                                         !.obs[o].contextCreated = FALSE]
       ELSE contexts' = [contexts EXCEPT !.obs[o].pc = "create"]
    /\ UNCHANGED <<ivars, untagCall, engine, config, opener, query, session, request, reparse, chunking, gate, sync, helper>>

\* LcFindOrCreateStreamContext: LcCreateStreamContext.
ObserverCreate(o) ==
    /\ contexts.obs[o].pc = "create"
    /\ \E outcome \in CreateContextOutcomes :
         LET data == CHOOSE d \in contexts.obs[o].data : TRUE
             r    == LcCreateStreamContext(contexts.pool, data, outcome) IN
         IF NT_SUCCESS(r.status)
         THEN contexts' = [contexts EXCEPT !.pool = r.pool, !.obs[o].pc = "set",
                                           !.obs[o].context = r.context]
         ELSE EndOperation(o, r.pool)
    /\ UNCHANGED <<ivars, untagCall, engine, config, opener, query, session, request, reparse, chunking, gate, sync, helper>>

\* LcFindOrCreateStreamContext: FltSetStreamContext, and what follows it.
\* The loser releases the context it built and takes the one it was given.
ObserverSet(o) ==
    /\ contexts.obs[o].pc = "set"
    /\ \E outcome \in SetContextOutcomes :
         LET context == contexts.obs[o].context
             r       == FltSetStreamContext(contexts.pool, context, outcome) IN
         IF NT_SUCCESS(r.status)
         THEN contexts' = [contexts EXCEPT !.pool = r.pool, !.obs[o].pc = "cr_hold",
                                           !.obs[o].contextCreated = TRUE]
         ELSE IF r.status # "STATUS_FLT_CONTEXT_ALREADY_DEFINED"
         THEN EndOperation(o, FltReleaseContext(r.pool, context))
         ELSE contexts' = [contexts EXCEPT
                              !.pool = FltReleaseContext(r.pool, context),
                              !.obs[o].pc = "cr_hold",
                              !.obs[o].context = r.oldContext,
                              !.obs[o].contextCreated = FALSE]
    /\ UNCHANGED <<ivars, untagCall, engine, config, opener, query, session, request, reparse, chunking, gate, sync, helper>>

\* The __finally block of PostCreateOperationCallback: FltReleaseContext.
ObserverOpenRelease(o) ==
    /\ contexts.obs[o].pc = "cr_hold"
    /\ EndOperation(o, FltReleaseContext(contexts.pool, contexts.obs[o].context))
    /\ UNCHANGED <<ivars, untagCall, engine, config, opener, query, session, request, reparse, chunking, gate, sync, helper>>

\* A read or write by a process that is not trusted: LcGetStreamContext.
ObserverRwGet(o) ==
    /\ contexts.obs[o].pc = "idle"
    /\ contexts.obs[o].ops < MaxObserverOps
    /\ LET r == FltGetStreamContext(contexts.pool) IN
       IF NT_SUCCESS(r.status)
       THEN contexts' = [contexts EXCEPT !.pool = r.pool, !.obs[o].pc = "rw_hold",
                                         !.obs[o].context = r.context]
       ELSE EndOperation(o, contexts.pool)
    /\ UNCHANGED <<ivars, untagCall, engine, config, opener, query, session, request, reparse, chunking, gate, sync, helper>>

\* The read or write has the file lock, finds the mark at the re-check,
\* fetches the file and clears the mark.
ObserverRwFetched(o) ==
    /\ contexts.obs[o].pc = "rw_hold"
    /\ StillTagged(contexts.file)
    /\ contexts' = [contexts EXCEPT !.file = LcUntagFile(contexts.file, "none").file,
                                    !.obs[o].pc = "rw_delete"]
    /\ UNCHANGED <<ivars, untagCall, engine, config, opener, query, session, request, reparse, chunking, gate, sync, helper>>

\* FltDeleteStreamContext(FltObjects->Instance, FltObjects->FileObject, NULL)
ObserverRwDelete(o) ==
    /\ contexts.obs[o].pc = "rw_delete"
    /\ LET r == FltDeleteStreamContext(contexts.pool) IN
       contexts' = [contexts EXCEPT !.pool = r.pool, !.obs[o].pc = "rw_release",
                                    !.obs[o].status = r.status]
    /\ UNCHANGED <<ivars, untagCall, engine, config, opener, query, session, request, reparse, chunking, gate, sync, helper>>

\* The __finally block of PreReadWriteOperationCallback: FltReleaseContext,
\* after a fetch, a failure or a pass through.
ObserverRwRelease(o) ==
    /\ contexts.obs[o].pc \in {"rw_hold", "rw_release"}
    /\ EndOperation(o, FltReleaseContext(contexts.pool, contexts.obs[o].context))
    /\ UNCHANGED <<ivars, untagCall, engine, config, opener, query, session, request, reparse, chunking, gate, sync, helper>>

NextContext ==
    \/ \E o \in Observers : ObserverOpen(o)
    \/ \E o \in Observers : ObserverGetReparse(o)
    \/ \E o \in Observers : ObserverFind(o)
    \/ \E o \in Observers : ObserverCreate(o)
    \/ \E o \in Observers : ObserverSet(o)
    \/ \E o \in Observers : ObserverOpenRelease(o)
    \/ \E o \in Observers : ObserverRwGet(o)
    \/ \E o \in Observers : ObserverRwFetched(o)
    \/ \E o \in Observers : ObserverRwDelete(o)
    \/ \E o \in Observers : ObserverRwRelease(o)

SpecContext == InitContext /\ [][NextContext]_vars

\* ------------------------ SpecMark: LcGetReparsePointData (ReparsePoints.c)

\* sizeof(LONGLONG), the RemoteFileSize field of LC_REPARSE_DATA.ReparseBuffer.
SizeOfRemoteFileSize == 8

\* sizeof(WCHAR)
SizeOfWchar == 2

\* sizeof(reparseData->ReparseBuffer): a LONGLONG and WCHAR[1], padded.
SizeOfReparseBuffer == 16

\* The data bytes that fit in a REPARSE_GUID_DATA_BUFFER after its header.
GuidDataBufferBytes == 4

\* The largest ReparseDataLength and the longest remote path of a mark.
MaxDataLength == 30

MaxPathChars == 3

\* The marks a file can carry: the creator wrote the remote size, chars
\* characters of remote path and a terminating nul, and the reparse point
\* holds the first ReparseDataLength bytes of that.
Marks ==
    [ReparseDataLength : 0..MaxDataLength, chars : 0..MaxPathChars,
     RemoteFileSize : {1, 2}]

\* The bytes of the remote size and of the nul-terminated remote path.
BytesOfFields(m) == SizeOfRemoteFileSize + (m.chars + 1) * SizeOfWchar

\* The characters of the path that lie in the data of the mark.
CharsInData(m) ==
    IF m.ReparseDataLength <= SizeOfRemoteFileSize THEN 0
    ELSE Min(m.chars, (m.ReparseDataLength - SizeOfRemoteFileSize) \div SizeOfWchar)

\* wcslen(reparseData->ReparseBuffer.RemoteFilePath): the length of the path
\* when its nul lies in the data; otherwise the scan leaves the buffer and
\* ends at whatever nul follows it in memory.
WcslenResults(m) ==
    IF m.ReparseDataLength >= BytesOfFields(m) THEN {m.chars}
    ELSE CharsInData(m)..(MaxPathChars + 2)

\* The calls of LcGetReparsePointData that can fail; "fault": the scan of
\* wcslen beyond the buffer touches memory that is not there.
MarkFaults == {"none", "alloc", "fsctl", "allocpath", "fault"}

\* LcGetReparsePointData on a file that carries the mark m.
ReadMark(m, wcslen, fault) ==
    LET remoteFilePathLength == (wcslen + 1) * SizeOfWchar
        failed(s) == [status |-> s, RemoteFileSize |-> "NONE", RemoteFilePath |-> "NONE"]
    IN  IF m.ReparseDataLength <= GuidDataBufferBytes
        THEN failed("STATUS_NOT_A_REPARSE_POINT")
        ELSE IF fault = "alloc" THEN failed("STATUS_INSUFFICIENT_RESOURCES")
        ELSE IF fault = "fsctl" THEN failed("STATUS_ACCESS_DENIED")
        ELSE IF fault = "fault" THEN failed("BUGCHECK")
        ELSE IF ~(m.ReparseDataLength < SizeOfReparseBuffer + remoteFilePathLength)
        THEN failed("STATUS_IO_REPARSE_DATA_INVALID")
        ELSE IF fault = "allocpath" THEN failed("STATUS_INSUFFICIENT_RESOURCES")
        ELSE [status |-> "STATUS_SUCCESS",
              RemoteFileSize |-> IF m.ReparseDataLength >= SizeOfRemoteFileSize
                                 THEN m.RemoteFileSize ELSE "GARBAGE",
              RemoteFilePath |-> IF m.ReparseDataLength >= BytesOfFields(m)
                                 THEN [chars |-> wcslen] ELSE "GARBAGE"]

\* A file with a mark, before LcGetReparsePointData is called on it.
InitMark ==
    /\ \E m \in Marks :
         reparse = [pc |-> "call", mark |-> m, status |-> "NONE",
                    RemoteFileSize |-> "NONE", RemoteFilePath |-> "NONE"]
    /\ files = [f \in Files |-> StubFile]
    /\ streamContext = [f \in Files |-> FALSE]
    /\ FileLocksList = <<>>
    /\ TrustedProccessList = {}
    /\ sys = "ok"
    /\ thr = [t \in Threads |-> Locals("none", "a")]
    /\ untagCall = NoUntagCall
    /\ engine = NoEngine
    /\ config = NoConfig
    /\ opener = NoOpener
    /\ query = NoQuery
    /\ session = NoSession
    /\ request = NoRequest
    /\ contexts = NoContexts
    /\ chunking = NoChunking
    /\ gate = NoGate
    /\ sync = NoSync
    /\ helper = NoHelper

\* LcGetReparsePointData(FltObjects, &fileSize, &remotePath) runs.
GetReparsePointData ==
    /\ reparse.pc = "call"
    /\ \E wcslen \in WcslenResults(reparse.mark), fault \in MarkFaults :
         LET r == ReadMark(reparse.mark, wcslen, fault) IN
         /\ fault = "fault" => reparse.mark.ReparseDataLength < BytesOfFields(reparse.mark)
         /\ reparse' = [reparse EXCEPT !.pc = IF r.status = "BUGCHECK" THEN "crashed"
                                              ELSE "done",
                                       !.status = r.status,
                                       !.RemoteFileSize = r.RemoteFileSize,
                                       !.RemoteFilePath = r.RemoteFilePath]
    /\ UNCHANGED <<ivars, untagCall, engine, config, opener, query, session, request, contexts, chunking, gate, sync, helper>>

NextMark == GetReparsePointData

SpecMark == InitMark /\ [][NextMark]_vars

\* ------------------------------------ SpecChunk: the capacity of the chunks

\* The largest size the source declares here: above twice the range of a ULONG.
MaxRemaining == 2 * ULongRange + 3

\* The sizes LcAddNewChunk was asked for, by chunk id, and the list it built.
InitChunk ==
    /\ \E size \in 1..MaxRemaining :
         chunking = [pc |-> "start", remainingBytes |-> size, chunks |-> <<>>,
                     asked |-> <<>>, status |-> "NONE"]
    /\ files = [f \in Files |-> StubFile]
    /\ streamContext = [f \in Files |-> FALSE]
    /\ FileLocksList = <<>>
    /\ TrustedProccessList = {}
    /\ sys = "ok"
    /\ thr = [t \in Threads |-> Locals("none", "a")]
    /\ untagCall = NoUntagCall
    /\ engine = NoEngine
    /\ config = NoConfig
    /\ opener = NoOpener
    /\ query = NoQuery
    /\ session = NoSession
    /\ request = NoRequest
    /\ contexts = NoContexts
    /\ reparse = NoReparse
    /\ gate = NoGate
    /\ sync = NoSync
    /\ helper = NoHelper

\* LcFetchFileByChunks up to the loop: remainingBytes is the declared size and
\* LcInitializeChunksList allocates one or two chunks from it.
InitializeChunksList ==
    /\ chunking.pc = "start"
    /\ \E allocOk \in BOOLEAN :
         LET r    == LcInitializeChunksList(chunking.remainingBytes, allocOk)
             rest == chunking.remainingBytes - r.chunks[1].BufferSize
         IN  chunking' = [chunking EXCEPT
                 !.pc     = IF NT_SUCCESS(r.status) THEN "listed" ELSE "failed",
                 !.chunks = r.chunks,
                 !.asked  = IF Len(r.chunks) = 0 THEN <<>>
                            ELSE IF Len(r.chunks) = 1 THEN <<chunking.remainingBytes>>
                            ELSE <<chunking.remainingBytes, rest>>,
                 !.status = r.status]
    /\ UNCHANGED <<ivars, untagCall, engine, config, opener, query, session, request, contexts, reparse, gate, sync, helper>>

\* A read that filled its chunk has completed: remainingBytes goes down by the
\* bytes read, a value of zero or less becomes ChunkSize, and the move to the
\* next chunk adds a chunk when that one still holds data (extend) and the list
\* is shorter than MaxChunks.
ReadFilledChunk ==
    /\ chunking.pc = "listed"
    /\ \E i \in 1..Len(chunking.chunks), extend \in BOOLEAN, allocOk \in BOOLEAN :
         LET bytesRead == chunking.chunks[i].BufferSize
             after     == chunking.remainingBytes - bytesRead
             remaining == IF after <= 0 THEN ChunkSize ELSE after
             r         == LcAddNewChunk(chunking.chunks, 1, remaining, allocOk)
         IN  IF extend /\ CanExtend(Len(chunking.chunks))
             THEN chunking' = [chunking EXCEPT
                     !.pc             = IF NT_SUCCESS(r.status) THEN "listed" ELSE "failed",
                     !.remainingBytes = remaining,
                     !.chunks         = r.chunks,
                     !.asked          = IF NT_SUCCESS(r.status)
                                        THEN Append(@, remaining) ELSE @,
                     !.status         = r.status]
             ELSE chunking' = [chunking EXCEPT !.remainingBytes = remaining]
    /\ UNCHANGED <<ivars, untagCall, engine, config, opener, query, session, request, contexts, reparse, gate, sync, helper>>

\* A read that ended short of its chunk, or with STATUS_END_OF_FILE: no more
\* chunks are asked for.
ReadReachedEnd ==
    /\ chunking.pc = "listed"
    /\ chunking' = [chunking EXCEPT !.pc = "eof", !.remainingBytes = 0]
    /\ UNCHANGED <<ivars, untagCall, engine, config, opener, query, session, request, contexts, reparse, gate, sync, helper>>

NextChunk == InitializeChunksList \/ ReadFilledChunk \/ ReadReachedEnd

SpecChunk == InitChunk /\ [][NextChunk]_vars

\* --------------------------- SpecMode: the operation mode beside opens and reads

\* DRIVER_OPERATION_MODE: DriverDisabled is the empty set.
OperationModes == SUBSET {"FetchEnabled", "WatchEnabled"}

DriverDisabled == {}

NumModeThreads == 2

ModeThreads == 1..NumModeThreads

ModeFiles == {"a", "b"}

\* A thread outside the driver. did/modeThen: what its last operation did to
\* the file ("attached", "cleared", "fetch" or "none") and the value of
\* Configuration.OperationMode at that moment.
IdleModeThread(did, modeThen) ==
    [pc |-> "idle", file |-> "a", OperationMode |-> DriverDisabled,
     did |-> did, modeThen |-> modeThen]

\* Two stubs, nothing attached; the mode is the one read from the registry.
InitMode ==
    /\ \E m \in OperationModes :
         gate = [pc      |-> "run",
                 mode    |-> m,
                 marked  |-> [f \in ModeFiles |-> TRUE],
                 context |-> [f \in ModeFiles |-> FALSE],
                 th      |-> [t \in ModeThreads |-> IdleModeThread("none", DriverDisabled)]]
    /\ files = [f \in Files |-> StubFile]
    /\ streamContext = [f \in Files |-> FALSE]
    /\ FileLocksList = <<>>
    /\ TrustedProccessList = {}
    /\ sys = "ok"
    /\ thr = [t \in Threads |-> Locals("none", "a")]
    /\ untagCall = NoUntagCall
    /\ engine = NoEngine
    /\ config = NoConfig
    /\ opener = NoOpener
    /\ query = NoQuery
    /\ session = NoSession
    /\ request = NoRequest
    /\ contexts = NoContexts
    /\ reparse = NoReparse
    /\ chunking = NoChunking
    /\ sync = NoSync
    /\ helper = NoHelper

\* LcSetOperationModeHandler: LcSetOperationMode under Globals.Lock held
\* exclusively, which no thread inside PreCreateOperationCallback shares (the
\* callback is one step here).
SetOperationMode ==
    /\ \E m \in OperationModes : gate' = [gate EXCEPT !.mode = m]
    /\ UNCHANGED <<ivars, untagCall, engine, config, opener, query, session, request, contexts, reparse, chunking, sync, helper>>

\* PreCreateOperationCallback for a candidate open of an untrusted process:
\* with DriverDisabled the open is passed through, else the mode read goes to
\* the post-operation callback in the completion context.
ModePreCreate(t) ==
    /\ gate.th[t].pc = "idle"
    /\ \E f \in ModeFiles :
         LET operationMode == gate.mode
         IN  gate' = [gate EXCEPT !.th[t] =
                 IF operationMode = DriverDisabled
                 THEN IdleModeThread("none", DriverDisabled)
                 ELSE [pc |-> "post", file |-> f, OperationMode |-> operationMode,
                       did |-> "none", modeThen |-> DriverDisabled]]
    /\ UNCHANGED <<ivars, untagCall, engine, config, opener, query, session, request, contexts, reparse, chunking, sync, helper>>

\* PostCreateOperationCallback once the open returned STATUS_REPARSE or not:
\* it goes by completionContext->OperationMode. replaced: the reissued open
\* created, overwrote or superseded the file, and the mark is cleared; else
\* the mark is read and the stream context attached. failed: one of the calls
\* on the way fails and the open is cancelled.
ModePostCreate(t) ==
    /\ gate.th[t].pc = "post"
    /\ \E replaced \in BOOLEAN, failed \in BOOLEAN :
         LET f == gate.th[t].file
         IN  IF "FetchEnabled" \notin gate.th[t].OperationMode \/ ~gate.marked[f] \/ failed
             THEN gate' = [gate EXCEPT !.th[t] = IdleModeThread("none", DriverDisabled)]
             ELSE IF replaced
             THEN gate' = [gate EXCEPT !.marked[f] = FALSE,
                                       !.th[t] = IdleModeThread("cleared", gate.mode)]
             ELSE gate' = [gate EXCEPT !.context[f] = TRUE,
                                       !.th[t] = IdleModeThread("attached", gate.mode)]
    /\ UNCHANGED <<ivars, untagCall, engine, config, opener, query, session, request, contexts, reparse, chunking, sync, helper>>

\* PreReadWriteOperationCallback of an untrusted process up to the call of
\* LcFetchRemoteFile: without a stream context, or with the mark gone, the I/O
\* is passed through; the operation mode is not read. While another thread
\* fetches the file this one waits on the event of the file lock.
ModePreReadWrite(t) ==
    /\ gate.th[t].pc = "idle"
    /\ \E f \in ModeFiles :
         /\ \A u \in ModeThreads : ~(gate.th[u].pc = "fetch" /\ gate.th[u].file = f)
         /\ IF gate.context[f] /\ gate.marked[f]
            THEN gate' = [gate EXCEPT !.th[t] =
                 [pc |-> "fetch", file |-> f, OperationMode |-> DriverDisabled,
                  did |-> "fetch", modeThen |-> gate.mode]]
            ELSE gate' = [gate EXCEPT !.th[t] = IdleModeThread("none", DriverDisabled)]
    /\ UNCHANGED <<ivars, untagCall, engine, config, opener, query, session, request, contexts, reparse, chunking, sync, helper>>

\* LcFetchRemoteFile returned: on success LcUntagFile and
\* FltDeleteStreamContext, on failure the I/O is failed and the mark stays.
ModeFetchReturns(t) ==
    /\ gate.th[t].pc = "fetch"
    /\ \E ok \in BOOLEAN :
         LET f == gate.th[t].file
         IN  gate' = [gate EXCEPT
                 !.marked[f]  = IF ok THEN FALSE ELSE @,
                 !.context[f] = IF ok THEN FALSE ELSE @,
                 !.th[t]      = IdleModeThread(gate.th[t].did, gate.th[t].modeThen)]
    /\ UNCHANGED <<ivars, untagCall, engine, config, opener, query, session, request, contexts, reparse, chunking, sync, helper>>

NextMode ==
    \/ SetOperationMode
    \/ \E t \in ModeThreads :
         \/ ModePreCreate(t)
         \/ ModePostCreate(t)
         \/ ModePreReadWrite(t)
         \/ ModeFetchReturns(t)

SpecMode == InitMode /\ [][NextMode]_vars

\* ----------------------------- SpecLock: the resources and the file events

NumLockThreads == 3

LockThreads == 1..NumLockThreads

\* Globals.Lock, Configuration.Lock and FileLocksResource.
Resources == {"Globals", "Configuration", "FileLocks"}

\* The files whose events the threads wait on.
LockFiles == {"a", "b"}

\* The steps of an operation that touch a resource or an event.
Acquire(resource, mode) == [do |-> "acquire", resource |-> resource, mode |-> mode]

Release(resource) == [do |-> "release", resource |-> resource, mode |-> "none"]

Do(what) == [do |-> what, resource |-> "none", mode |-> "none"]

\* LcIsProcessTrusted and LcIsPathWatched.
LcIsProcessTrustedSteps ==
    <<Acquire("Configuration", "shared"), Release("Configuration")>>

LcIsPathWatchedSteps ==
    <<Acquire("Configuration", "shared"), Release("Configuration")>>

\* LcAddTrustedProcess, LcRemoveTrustedProcess, LcClearPathsToWatch and
\* LcAddPathToWatch.
LcAddTrustedProcessSteps ==
    <<Acquire("Configuration", "exclusive")>> \o LcIsProcessTrustedSteps
    \o <<Release("Configuration")>>

LcRemoveTrustedProcessSteps ==
    <<Acquire("Configuration", "exclusive"), Release("Configuration")>>

LcClearPathsToWatchSteps ==
    <<Acquire("Configuration", "exclusive"), Release("Configuration")>>

LcAddPathToWatchSteps ==
    <<Acquire("Configuration", "exclusive")>> \o LcIsPathWatchedSteps
    \o <<Release("Configuration")>>

\* LcReadConfigurationFromRegistry: the watch list is cleared and one path added.
LcReadConfigurationFromRegistrySteps ==
    <<Acquire("Configuration", "exclusive")>> \o LcClearPathsToWatchSteps
    \o LcAddPathToWatchSteps \o <<Release("Configuration")>>

\* A helper command that takes the configuration first and the global lock
\* inside it.
LcSetWatchPathsHandler_ConfigurationFirst ==
    <<Acquire("Configuration", "exclusive"), Acquire("Globals", "exclusive"),
      Release("Globals"), Release("Configuration")>>

\* The handlers of the helper commands.
LcSetWatchPathsHandler ==
    <<Acquire("Globals", "exclusive")>> \o LcClearPathsToWatchSteps
    \o LcAddPathToWatchSteps \o <<Release("Globals")>>

LcReadRegistryParametersHandler ==
    <<Acquire("Globals", "exclusive")>> \o LcReadConfigurationFromRegistrySteps
    \o <<Release("Globals")>>

LcSetOperationModeHandler == <<Acquire("Globals", "exclusive"), Release("Globals")>>

\* LcCommunicationPortConnect and LcCommunicationPortDisconnect.
ConnectSteps == LcAddTrustedProcessSteps

DisconnectSteps == LcRemoveTrustedProcessSteps

\* PreCreateOperationCallback: an open that leaves before the trusted check,
\* the open of a trusted process, and an open that asks for the report rate.
PreCreateLeaves == <<Acquire("Globals", "shared"), Release("Globals")>>

PreCreateTrusted ==
    <<Acquire("Globals", "shared")>> \o LcIsProcessTrustedSteps \o <<Release("Globals")>>

PreCreateWatched ==
    <<Acquire("Globals", "shared")>> \o LcIsProcessTrustedSteps
    \o LcIsPathWatchedSteps \o <<Release("Globals")>>

\* PreReadWriteOperationCallback: a trusted process or a stream without a
\* context; a failed LcGetFileLock; and the whole of it: LcGetFileLock, the
\* wait with a zero timeout, the wait without one, the fetch, LcReleaseFileLock.
PreReadWriteLeaves == LcIsProcessTrustedSteps

PreReadWriteNoLock ==
    LcIsProcessTrustedSteps \o <<Acquire("FileLocks", "exclusive"), Release("FileLocks")>>

PreReadWriteFetches ==
    LcIsProcessTrustedSteps
    \o <<Acquire("FileLocks", "exclusive"), Do("get"), Release("FileLocks"),
         Do("trywait"), Do("wait"), Do("fetch"),
         Acquire("FileLocks", "exclusive"), Do("put"), Release("FileLocks")>>

Operations ==
    {LcSetWatchPathsHandler, LcReadRegistryParametersHandler, LcSetOperationModeHandler,
     ConnectSteps, DisconnectSteps, PreCreateLeaves, PreCreateTrusted, PreCreateWatched,
     PreReadWriteLeaves, PreReadWriteNoLock, PreReadWriteFetches}

\* A resource nobody owns, and a file without an entry in FileLocksList.
FreeResource == [exclusive |-> FALSE, count |-> [t \in LockThreads |-> 0]]

NoEntry == [RefCount |-> 0, Event |-> TRUE]

IdleLockThread == [steps |-> <<>>, at |-> 0, file |-> "a"]

InitLock ==
    /\ sync = [pc  |-> "run",
               th  |-> [t \in LockThreads |-> IdleLockThread],
               res |-> [r \in Resources |-> FreeResource],
               ev  |-> [f \in LockFiles |-> NoEntry]]
    /\ files = [f \in Files |-> StubFile]
    /\ streamContext = [f \in Files |-> FALSE]
    /\ FileLocksList = <<>>
    /\ TrustedProccessList = {}
    /\ sys = "ok"
    /\ thr = [t \in Threads |-> Locals("none", "a")]
    /\ untagCall = NoUntagCall
    /\ engine = NoEngine
    /\ config = NoConfig
    /\ opener = NoOpener
    /\ query = NoQuery
    /\ session = NoSession
    /\ request = NoRequest
    /\ contexts = NoContexts
    /\ reparse = NoReparse
    /\ chunking = NoChunking
    /\ gate = NoGate
    /\ helper = NoHelper

\* The step thread t is at, and the resources it owns.
StepOf(t) == sync.th[t].steps[sync.th[t].at]

InOperation(t) == sync.th[t].at # 0

Owns(t, r) == sync.res[r].count[t] > 0

\* Thread t waits for exclusive access to resource r.
WaitsExclusive(t, r) ==
    /\ InOperation(t)
    /\ StepOf(t) = Acquire(r, "exclusive")
    /\ \E u \in LockThreads \ {t} : Owns(u, r)

\* FltAcquireResourceExclusive and FltAcquireResourceShared: whether the
\* resource is granted to t. An owner is granted it again; shared access is
\* not granted past a thread that waits for exclusive access.
Granted(t, r, mode) ==
    \/ Owns(t, r)
    \/ /\ mode = "exclusive"
       /\ \A u \in LockThreads : ~Owns(u, r)
    \/ /\ mode = "shared"
       /\ ~sync.res[r].exclusive
       /\ \A u \in LockThreads \ {t} : ~WaitsExclusive(u, r)

\* The thread moves to its next step, or returns after the last one.
Advance(th, by) ==
    IF th.at + by > Len(th.steps) THEN IdleLockThread ELSE [th EXCEPT !.at = @ + by]

\* A thread enters one of the operations.
BeginOperation(t) ==
    /\ ~InOperation(t)
    /\ \E steps \in Operations, f \in LockFiles :
         sync' = [sync EXCEPT !.th[t] = [steps |-> steps, at |-> 1, file |-> f]]
    /\ UNCHANGED <<ivars, untagCall, engine, config, opener, query, session, request, contexts, reparse, chunking, gate, helper>>

\* FltAcquireResourceExclusive or FltAcquireResourceShared returns.
AcquireResource(t) ==
    /\ InOperation(t)
    /\ StepOf(t).do = "acquire"
    /\ Granted(t, StepOf(t).resource, StepOf(t).mode)
    /\ LET r == StepOf(t).resource
       IN  sync' = [sync EXCEPT
               !.res[r].exclusive = @ \/ StepOf(t).mode = "exclusive",
               !.res[r].count[t]  = @ + 1,
               !.th[t]            = Advance(@, 1)]
    /\ UNCHANGED <<ivars, untagCall, engine, config, opener, query, session, request, contexts, reparse, chunking, gate, helper>>

\* FltReleaseResource
ReleaseResource(t) ==
    /\ InOperation(t)
    /\ StepOf(t).do = "release"
    /\ LET r == StepOf(t).resource
       IN  sync' = [sync EXCEPT
               !.res[r].exclusive = IF sync.res[r].count[t] = 1 THEN FALSE ELSE @,
               !.res[r].count[t]  = @ - 1,
               !.th[t]            = Advance(@, 1)]
    /\ UNCHANGED <<ivars, untagCall, engine, config, opener, query, session, request, contexts, reparse, chunking, gate, helper>>

\* LcGetFileLock inside FileLocksResource: the entry is found or inserted with
\* its event set, and RefCount goes up.
GetFileLock(t) ==
    /\ InOperation(t)
    /\ StepOf(t).do = "get"
    /\ sync' = [sync EXCEPT !.ev[sync.th[t].file].RefCount = @ + 1,
                            !.th[t] = Advance(@, 1)]
    /\ UNCHANGED <<ivars, untagCall, engine, config, opener, query, session, request, contexts, reparse, chunking, gate, helper>>

\* KeWaitForSingleObject(fileLockEvent, ..., &zeroTimeout): with the event set
\* the thread takes it and goes on to the fetch, else to the wait.
TryWaitEvent(t) ==
    /\ InOperation(t)
    /\ StepOf(t).do = "trywait"
    /\ LET f == sync.th[t].file
       IN  IF sync.ev[f].Event
           THEN sync' = [sync EXCEPT !.ev[f].Event = FALSE, !.th[t] = Advance(@, 2)]
           ELSE sync' = [sync EXCEPT !.th[t] = Advance(@, 1)]
    /\ UNCHANGED <<ivars, untagCall, engine, config, opener, query, session, request, contexts, reparse, chunking, gate, helper>>

\* KeWaitForSingleObject(fileLockEvent, ..., NULL) returns: the event was set,
\* and the thread leaves for the __finally block.
WaitEvent(t) ==
    /\ InOperation(t)
    /\ StepOf(t).do = "wait"
    /\ sync.ev[sync.th[t].file].Event
    /\ sync' = [sync EXCEPT !.ev[sync.th[t].file].Event = FALSE,
                            !.th[t] = Advance(@, 2)]
    /\ UNCHANGED <<ivars, untagCall, engine, config, opener, query, session, request, contexts, reparse, chunking, gate, helper>>

\* The re-check, LcFetchRemoteFile, LcUntagFile and FltDeleteStreamContext.
FetchUnderEvent(t) ==
    /\ InOperation(t)
    /\ StepOf(t).do = "fetch"
    /\ sync' = [sync EXCEPT !.th[t] = Advance(@, 1)]
    /\ UNCHANGED <<ivars, untagCall, engine, config, opener, query, session, request, contexts, reparse, chunking, gate, helper>>

\* LcReleaseFileLock inside FileLocksResource: RefCount goes down, the entry
\* is removed at zero, else its event is set.
PutFileLock(t) ==
    /\ InOperation(t)
    /\ StepOf(t).do = "put"
    /\ LET f == sync.th[t].file
       IN  sync' = [sync EXCEPT
               !.ev[f] = IF sync.ev[f].RefCount - 1 <= 0 THEN NoEntry
                         ELSE [RefCount |-> sync.ev[f].RefCount - 1, Event |-> TRUE],
               !.th[t] = Advance(@, 1)]
    /\ UNCHANGED <<ivars, untagCall, engine, config, opener, query, session, request, contexts, reparse, chunking, gate, helper>>

NextLock ==
    \E t \in LockThreads :
        \/ BeginOperation(t)
        \/ AcquireResource(t)
        \/ ReleaseResource(t)
        \/ GetFileLock(t)
        \/ TryWaitEvent(t)
        \/ WaitEvent(t)
        \/ FetchUnderEvent(t)
        \/ PutFileLock(t)

SpecLock == InitLock /\ [][NextLock]_vars

\* ------------- SpecHelper: LcOpenFileInUserMode beside the port's callbacks

\* How many connections the client makes in a run, and the threads that call
\* LcOpenFileInUserMode.
MaxSessions == 2

NumCallers == 2

Callers == 1..NumCallers

\* The handles the client replies with; 0 is NULL.
ReplyHandles == 0..1

\* A handle variable of Communication.c: NULL, a handle opened for connection
\* gen, or that handle after ZwClose, its value still in the variable.
NullHandle == [gen |-> 0, state |-> "NULL"]

OpenHandle(gen) == [gen |-> gen, state |-> "open"]

ClosedHandle(h) == [h EXCEPT !.state = "closed"]

\* What a call that has not reached ZwDuplicateObject has handed to it.
NoHandle == [gen |-> 0, state |-> "none"]

\* The locals of LcOpenFileInUserMode before it runs.  gen is the connection
\* the notification went to; dupClient and dupSystem are ClientProcessHandle
\* and SystemProcessHandle as ZwDuplicateObject was handed them; closeGen is
\* the connection the CloseFileHandle notification went to (0: none).
IdleCall ==
    [pc |-> "idle", gen |-> 0, reply |-> 0, status |-> "STATUS_SUCCESS",
     dupClient |-> NoHandle, dupSystem |-> NoHandle, Handle |-> "NULL",
     closed |-> FALSE, closeGen |-> 0]

\* What ZwDuplicateObject returns, and the handle it makes.  With both process
\* handles open for the connection that sent the reply the client's handle is
\* duplicated, unless the client has closed it or the access is refused.  A
\* NULL process handle is invalid.  A handle that was closed is invalid, or
\* its value names whatever object the system has opened since; a handle of a
\* later connection names another process.  "foreign": a handle duplicated
\* from a process that did not send the reply.
ZwDuplicateObject(ClientProcessHandle, FileHandle, SystemProcessHandle, gen) ==
    IF ClientProcessHandle.state = "NULL" \/ SystemProcessHandle.state = "NULL"
    THEN {[status |-> "STATUS_INVALID_HANDLE", Handle |-> "NULL"]}
    ELSE IF /\ ClientProcessHandle = OpenHandle(gen)
            /\ SystemProcessHandle = OpenHandle(gen)
    THEN IF FileHandle = 0
         THEN {[status |-> "STATUS_INVALID_HANDLE", Handle |-> "NULL"]}
         ELSE {[status |-> "STATUS_SUCCESS", Handle |-> "duplicate"],
               [status |-> "STATUS_INVALID_HANDLE", Handle |-> "NULL"],
               [status |-> "STATUS_ACCESS_DENIED", Handle |-> "NULL"]}
    ELSE {[status |-> "STATUS_INVALID_HANDLE", Handle |-> "NULL"],
          [status |-> "STATUS_OBJECT_TYPE_MISMATCH", Handle |-> "NULL"],
          [status |-> "STATUS_SUCCESS", Handle |-> "foreign"]}

\* The connections of a run are accepted ones: ZwOpenProcess,
\* ObOpenObjectByPointer and LcAddTrustedProcess succeed.
InitHelper ==
    /\ helper = [pc |-> "run", port |-> "idle", connected |-> FALSE, sessions |-> 0,
                 ClientPort |-> 0, ClientProcessId |-> 0,
                 ClientProcessHandle |-> NullHandle,
                 SystemProcessHandle |-> NullHandle,
                 call |-> [t \in Callers |-> IdleCall]]
    /\ files = [f \in Files |-> StubFile]
    /\ streamContext = [f \in Files |-> FALSE]
    /\ FileLocksList = <<>>
    /\ TrustedProccessList = {}
    /\ sys = "ok"
    /\ thr = [t \in Threads |-> Locals("none", "a")]
    /\ untagCall = NoUntagCall
    /\ engine = NoEngine
    /\ config = NoConfig
    /\ opener = NoOpener
    /\ query = NoQuery
    /\ session = NoSession
    /\ request = NoRequest
    /\ contexts = NoContexts
    /\ reparse = NoReparse
    /\ chunking = NoChunking
    /\ gate = NoGate
    /\ sync = NoSync

\* LcCommunicationPortConnect: ClientPort = Port, ClientProcessId = ...
HelperConnectBegin ==
    /\ helper.port = "idle"
    /\ ~helper.connected
    /\ helper.sessions < MaxSessions
    /\ helper' = [helper EXCEPT !.sessions = @ + 1, !.ClientPort = helper.sessions + 1,
                                !.ClientProcessId = helper.sessions + 1,
                                !.port = "open_client"]
    /\ UNCHANGED <<ivars, untagCall, engine, config, opener, query, session, request, contexts, reparse, chunking, gate, sync>>

\* ZwOpenProcess(&ClientProcessHandle, ...)
HelperOpenClient ==
    /\ helper.port = "open_client"
    /\ helper' = [helper EXCEPT !.ClientProcessHandle = OpenHandle(helper.sessions),
                                !.port = "open_system"]
    /\ UNCHANGED <<ivars, untagCall, engine, config, opener, query, session, request, contexts, reparse, chunking, gate, sync>>

\* ObOpenObjectByPointer(PsInitialSystemProcess, ..., &SystemProcessHandle)
HelperOpenSystem ==
    /\ helper.port = "open_system"
    /\ helper' = [helper EXCEPT !.SystemProcessHandle = OpenHandle(helper.sessions),
                                !.port = "add_trusted"]
    /\ UNCHANGED <<ivars, untagCall, engine, config, opener, query, session, request, contexts, reparse, chunking, gate, sync>>

\* LcAddTrustedProcess(ClientProcessId), and the return of the callback: the
\* connection is established.
HelperConnected ==
    /\ helper.port = "add_trusted"
    /\ helper' = [helper EXCEPT !.connected = TRUE, !.port = "idle"]
    /\ TrustedProccessList' = TrustedAfterAdd(TrustedProccessList, "helper")
    /\ UNCHANGED <<files, streamContext, FileLocksList, sys, thr, untagCall, engine, config, opener, query, session, request, contexts, reparse, chunking, gate, sync>>

\* LcCommunicationPortDisconnect: FltCloseClientPort(Globals.Filter, &ClientPort)
\* sets ClientPort to NULL, and every FltSendMessage that waits for its reply
\* returns STATUS_PORT_DISCONNECTED.
HelperDisconnect ==
    /\ helper.port = "idle"
    /\ helper.connected
    /\ helper' = [helper EXCEPT
           !.connected = FALSE, !.ClientPort = 0, !.port = "close_client",
           !.call = [t \in Callers |->
                        IF helper.call[t].pc = "waiting"
                        THEN [helper.call[t] EXCEPT !.status = "STATUS_PORT_DISCONNECTED",
                                                    !.pc = "done"]
                        ELSE helper.call[t]]]
    /\ UNCHANGED <<ivars, untagCall, engine, config, opener, query, session, request, contexts, reparse, chunking, gate, sync>>

\* LcResetConnectionVariables: ZwClose(ClientProcessHandle)
ResetCloseClient ==
    /\ helper.port = "close_client"
    /\ helper' = [helper EXCEPT
           !.ClientProcessHandle = IF @.state = "NULL" THEN @ ELSE ClosedHandle(@),
           !.port = "null_client"]
    /\ UNCHANGED <<ivars, untagCall, engine, config, opener, query, session, request, contexts, reparse, chunking, gate, sync>>

\* LcResetConnectionVariables: ClientProcessHandle = NULL
ResetNullClient ==
    /\ helper.port = "null_client"
    /\ helper' = [helper EXCEPT !.ClientProcessHandle = NullHandle,
                                !.port = "close_system"]
    /\ UNCHANGED <<ivars, untagCall, engine, config, opener, query, session, request, contexts, reparse, chunking, gate, sync>>

\* LcResetConnectionVariables: ZwClose(SystemProcessHandle)
ResetCloseSystem ==
    /\ helper.port = "close_system"
    /\ helper' = [helper EXCEPT
           !.SystemProcessHandle = IF @.state = "NULL" THEN @ ELSE ClosedHandle(@),
           !.port = "null_system"]
    /\ UNCHANGED <<ivars, untagCall, engine, config, opener, query, session, request, contexts, reparse, chunking, gate, sync>>

\* LcResetConnectionVariables: SystemProcessHandle = NULL
ResetNullSystem ==
    /\ helper.port = "null_system"
    /\ helper' = [helper EXCEPT !.SystemProcessHandle = NullHandle,
                                !.port = "remove_trusted"]
    /\ UNCHANGED <<ivars, untagCall, engine, config, opener, query, session, request, contexts, reparse, chunking, gate, sync>>

\* LcResetConnectionVariables: LcRemoveTrustedProcess(ClientProcessId) and
\* ClientProcessId = NULL; the callback returns.
ResetProcessId ==
    /\ helper.port = "remove_trusted"
    /\ helper' = [helper EXCEPT !.ClientProcessId = 0, !.port = "idle"]
    /\ TrustedProccessList' =
           IF helper.ClientProcessId # 0
           THEN TrustedAfterRemove(TrustedProccessList, "helper")
           ELSE TrustedProccessList
    /\ UNCHANGED <<files, streamContext, FileLocksList, sys, thr, untagCall, engine, config, opener, query, session, request, contexts, reparse, chunking, gate, sync>>

\* LcOpenFileInUserMode up to FltSendMessage: the buffers are allocated,
\* LcSendMessageToClient checks ClientPort and sends the notification.
CallSend(t) ==
    /\ helper.call[t].pc = "idle"
    /\ \E allocOk \in BOOLEAN :
         helper' = [helper EXCEPT !.call[t] =
             IF ~allocOk
             THEN [@ EXCEPT !.status = "STATUS_INSUFFICIENT_RESOURCES", !.pc = "done"]
             ELSE IF helper.ClientPort = 0
             THEN [@ EXCEPT !.status = "STATUS_PORT_DISCONNECTED", !.pc = "done"]
             ELSE [@ EXCEPT !.gen = helper.ClientPort, !.pc = "waiting"]]
    /\ UNCHANGED <<ivars, untagCall, engine, config, opener, query, session, request, contexts, reparse, chunking, gate, sync>>

\* The client replies with the handle it opened, or with NULL, and
\* FltSendMessage returns.
CallReplied(t) ==
    /\ helper.call[t].pc = "waiting"
    /\ helper.connected
    /\ \E handle \in ReplyHandles :
         helper' = [helper EXCEPT !.call[t].reply = handle, !.call[t].pc = "duplicate"]
    /\ UNCHANGED <<ivars, untagCall, engine, config, opener, query, session, request, contexts, reparse, chunking, gate, sync>>

\* ZwDuplicateObject(ClientProcessHandle, reply->FileHandle,
\* SystemProcessHandle, Handle, ...): the two variables are read as they are.
CallDuplicate(t) ==
    /\ helper.call[t].pc = "duplicate"
    /\ \E r \in ZwDuplicateObject(helper.ClientProcessHandle, helper.call[t].reply,
                                  helper.SystemProcessHandle, helper.call[t].gen) :
         helper' = [helper EXCEPT !.call[t] =
             [@ EXCEPT !.dupClient = helper.ClientProcessHandle,
                       !.dupSystem = helper.SystemProcessHandle,
                       !.status = r.status, !.Handle = r.Handle,
                       !.pc = IF helper.call[t].reply # 0 THEN "close" ELSE "done"]]
    /\ UNCHANGED <<ivars, untagCall, engine, config, opener, query, session, request, contexts, reparse, chunking, gate, sync>>

\* The __finally block: LcCloseFileHandle(reply->FileHandle), whose status is
\* ignored; without a ClientPort no notification is sent.
CallClose(t) ==
    /\ helper.call[t].pc = "close"
    /\ helper' = [helper EXCEPT !.call[t] =
           [@ EXCEPT !.closed = TRUE, !.closeGen = helper.ClientPort, !.pc = "done"]]
    /\ UNCHANGED <<ivars, untagCall, engine, config, opener, query, session, request, contexts, reparse, chunking, gate, sync>>

\* LcOpenFileInUserMode has returned and the thread calls it again later.
CallReturns(t) ==
    /\ helper.call[t].pc = "done"
    /\ helper' = [helper EXCEPT !.call[t] = IdleCall]
    /\ UNCHANGED <<ivars, untagCall, engine, config, opener, query, session, request, contexts, reparse, chunking, gate, sync>>

NextHelper ==
    \/ HelperConnectBegin
    \/ HelperOpenClient
    \/ HelperOpenSystem
    \/ HelperConnected
    \/ HelperDisconnect
    \/ ResetCloseClient
    \/ ResetNullClient
    \/ ResetCloseSystem
    \/ ResetNullSystem
    \/ ResetProcessId
    \/ \E t \in Callers :
          \/ CallSend(t)
          \/ CallReplied(t)
          \/ CallDuplicate(t)
          \/ CallClose(t)
          \/ CallReturns(t)

SpecHelper == InitHelper /\ [][NextHelper]_vars

\* ------------------------- SpecWait: threads contending for the file locks

\* Number of threads that issue a read or write (SpecWait).
NumWaitThreads == 3

WaitThreads == 1..NumWaitThreads

\* Both stubs have been opened and carry their stream context, the state
\* PostCreateSetContext leaves; no client is connected, so no thread is
\* trusted.
InitWait ==
    /\ files = [f \in Files |-> StubFile]
    /\ streamContext = [f \in Files |-> TRUE]
    /\ FileLocksList = <<>>
    /\ TrustedProccessList = {}
    /\ sys = "ok"
    /\ thr = [t \in WaitThreads |-> Locals("none", "a")]
    /\ untagCall = NoUntagCall /\ engine = NoEngine /\ config = NoConfig
    /\ opener = NoOpener /\ query = NoQuery
    /\ session = NoSession /\ request = NoRequest
    /\ contexts = NoContexts
    /\ reparse = NoReparse
    /\ chunking = NoChunking
    /\ gate = NoGate
    /\ sync = NoSync
    /\ helper = NoHelper

\* Each thread issues one read or write, at any time.
Arrive(t) == thr[t].op = "none" /\ RwPre(t)

NextWait ==
    \/ \E t \in WaitThreads : Arrive(t)
    \/ \E t \in WaitThreads : RwGetFileLock(t)
    \/ \E t \in WaitThreads : RwTryWait(t)
    \/ \E t \in WaitThreads : RwWake(t)
    \/ \E t \in WaitThreads : RwCheck(t)
    \/ \E t \in WaitThreads : RwFetchEnd(t)
    \/ \E t \in WaitThreads : RwUntag(t)
    \/ \E t \in WaitThreads : RwDeleteContext(t)
    \/ \E t \in WaitThreads : RwRelease(t)
    \/ \E t \in WaitThreads : Bugcheck(t)

\* The steps of PreReadWriteOperationCallback a running thread takes by
\* itself; LcFetchRemoteFile is taken to return.
Progress(t) ==
    \/ RwGetFileLock(t) \/ RwTryWait(t) \/ RwCheck(t) \/ RwFetchEnd(t)
    \/ RwUntag(t) \/ RwDeleteContext(t) \/ RwRelease(t)

\* Fair scheduling: a thread that can run does run, and a wait on a signaled
\* event is satisfied.
SpecWait ==
    /\ InitWait /\ [][NextWait]_vars
    /\ \A t \in WaitThreads : WF_vars(Progress(t)) /\ WF_vars(RwWake(t))

\* ------------------------------------------------ observations of a thread

\* The stub mark of the file a name leads to is present.
Marked(n) == files[FileOf(n)].ReparseTag = "LC"

\* The thread has consumed the event with the zero-timeout wait and has not
\* yet called LcReleaseFileLock.
InFetcherSection(t) ==
    \/ thr[t].pc \in {"rw_check", "rw_fetching", "rw_untag", "rw_delctx"}
    \/ thr[t].pc = "rw_release" /\ ~thr[t].parked

\* The thread has called LcFetchRemoteFile in its read/write callback.
InvokedEngine(t) ==
    thr[t].op = "rw" /\ (thr[t].pc = "rw_fetching" \/ thr[t].fetchStatus # "NONE")

\* LcFetchRemoteFile has returned a failure to the thread.
FetchFailed(t) == thr[t].fetchStatus \notin {"NONE", "STATUS_SUCCESS"}

\* What LcReleaseFileLock(ev) leaves of the entry of ev: the entry is gone when
\* its last reference was dropped, and its event is signaled otherwise.
Released(before, after, ev) ==
    LET i == FirstWithEvent(before, ev)
        j == FirstWithEvent(after, ev)
    IN  /\ i # 0
        /\ IF before[i].RefCount <= 1
           THEN j = 0
           ELSE j # 0 /\ after[j].RefCount = before[i].RefCount - 1 /\ after[j].Event

\* -------------------------------------------------------------- claims

\* C1: for every path, at most one thread at a time is between consuming the
\* path's event with the zero-timeout wait and calling release on the file
\* lock, so at most one fetch of the path is in progress.
C1_OneFetcherPerPath ==
    \A t1 \in Threads, t2 \in Threads :
        (t1 # t2 /\ InFetcherSection(t1) /\ InFetcherSection(t2))
            => ~RtlCompareUnicodeString(thr[t1].name, thr[t2].name)

C3_WokenSeesUnmarked ==
    \A t \in Threads :
        (thr[t].parked /\ thr[t].pc = "rw_release") => ~Marked(thr[t].name)

C5_FailedFetchFailsIo ==
    [][\A t \in Threads :
          /\ (thr[t].pc = "rw_fetching" /\ thr'[t] # thr[t] /\ ~NT_SUCCESS(thr'[t].fetchStatus))
                => /\ thr'[t].pc = "rw_release"
                   /\ files' = files
                   /\ streamContext' = streamContext
          /\ (thr[t].pc = "rw_release" /\ FetchFailed(t) /\ thr'[t] # thr[t])
                => /\ thr'[t].pc = "idle"
                   /\ thr'[t].IoStatus = [Status |-> thr[t].fetchStatus, Information |-> "0"]
                   /\ thr'[t].callbackStatus = "FLT_PREOP_COMPLETE"
                   /\ files' = files
                   /\ streamContext' = streamContext
                   /\ Released(FileLocksList, FileLocksList', thr[t].fileLockEvent)]_vars

\* A later read or write on the file has become the fetcher and has invoked
\* the fetch engine again.
C5_Witness ==
    \E t1 \in Threads, t2 \in Threads :
        /\ sys = "ok"
        /\ thr[t1].pc = "idle"
        /\ FetchFailed(t1)
        /\ thr[t1].callbackStatus = "FLT_PREOP_COMPLETE"
        /\ thr[t2].pc = "rw_fetching"
        /\ FileOf(thr[t1].name) = FileOf(thr[t2].name)
        /\ Marked(thr[t1].name)
        /\ streamContext[FileOf(thr[t1].name)]

\* C9: an open, read, write or section acquire of a thread whose process is
\* trusted when the callback runs returns at once and passes the I/O on: no
\* fetch, no mark clear, no file lock, no stream context, the file unchanged.
C9_TrustedBypass ==
    [][\A t \in Threads :
          (thr[t].pc = "idle" /\ PidOf(t) \in TrustedProccessList /\ thr'[t] # thr[t])
             => /\ thr'[t].pc = "idle"
                /\ thr'[t].callbackStatus = "FLT_PREOP_SUCCESS_NO_CALLBACK"
                /\ thr'[t].fetchStatus = "NONE"
                /\ thr'[t].untagStatus = "NONE"
                /\ files' = files
                /\ streamContext' = streamContext
                /\ FileLocksList' = FileLocksList]_vars

C9_Witness ==
    \E t \in Threads :
        /\ PidOf(t) \in TrustedProccessList
        /\ thr[t].pc = "idle"
        /\ thr[t].op = "rw"
        /\ thr[t].trusted
        /\ Marked(thr[t].name)
        /\ streamContext[FileOf(thr[t].name)]

\* C10 (as stated): clearing the mark of a file that has no mark returns
\* success and leaves every attribute bit of the file as it was.
C10_AbsentMarkUntouched ==
    (untagCall.calls > 0 /\ untagCall.fault = "none"
        /\ untagCall.before.ReparseTag = "NONE")
    => (untagCall.status = "STATUS_SUCCESS" /\ untagCall.file = untagCall.before)

\* C10 (amended): on a file without a reparse point LcUntagFile succeeds when
\* none of its calls fails, and whenever it succeeds the mark is still absent,
\* no attribute is added, only OFFLINE and NOT_CONTENT_INDEXED can be removed
\* (read-only ends as it began), and a clear that follows a successful clear
\* leaves the file exactly as it was.
C10_AbsentMarkClear ==
    (untagCall.calls > 0 /\ untagCall.before.ReparseTag = "NONE")
    => /\ untagCall.fault = "none" => untagCall.status = "STATUS_SUCCESS"
       /\ untagCall.status = "STATUS_SUCCESS" =>
            /\ untagCall.file.ReparseTag = "NONE"
            /\ untagCall.file.FileAttributes \subseteq untagCall.before.FileAttributes
            /\ (untagCall.before.FileAttributes \ untagCall.file.FileAttributes)
                    \subseteq {"OFFLINE", "NOT_CONTENT_INDEXED"}
            /\ untagCall.previous = "STATUS_SUCCESS" => untagCall.file = untagCall.before

\* A read-only, offline file without a mark was cleared with success, and the
\* call changed it.
C10_Witness ==
    /\ untagCall.calls > 0
    /\ untagCall.before.ReparseTag = "NONE"
    /\ {"READONLY", "OFFLINE"} \subseteq untagCall.before.FileAttributes
    /\ untagCall.status = "STATUS_SUCCESS"
    /\ "READONLY" \in untagCall.file.FileAttributes
    /\ untagCall.file # untagCall.before

\* ------------------------------------------------- claims on the fetch engine

\* The fetch has returned success.
FetchSucceeded == engine.pc = "done" /\ engine.status = "STATUS_SUCCESS"

\* The reads that delivered bytes.
ReadsWithData ==
    {k \in 1..Len(engine.reads) :
        Delivered(engine.actual, engine.reads[k].offset, engine.reads[k].length) > 0}

\* C6: in every run of the fetch engine the k-th local write carries the bytes
\* of the k-th source read at the offset that read was made at, and when the
\* fetch succeeds every read that delivered bytes has been written once.
C6_WritesFollowReads ==
    engine.pc \in {"top", "rwait", "done"}
    => /\ engine.inOrder
       /\ FetchSucceeded => engine.written = Cardinality(ReadsWithData)

\* C7 (as stated): a successful fetch reports the smaller of the bytes the
\* source holds and the size it declared, which is the sum of the completed
\* local writes.
C7_CopiedIsMin ==
    FetchSucceeded
    => /\ engine.BytesCopied = Min(engine.actual, engine.declared)
       /\ engine.BytesCopied = engine.writtenBytes

\* C7 (amended): a successful fetch reports the sum of the byte counts of the
\* completed local writes, whatever the source declared.
C7_CopiedIsWritten ==
    FetchSucceeded => engine.BytesCopied = engine.writtenBytes

\* A fetch succeeded on a source that holds more than it declared, and all the
\* bytes of the source were copied.
C7_Witness ==
    /\ FetchSucceeded
    /\ engine.actual > engine.declared /\ engine.declared > 0
    /\ engine.BytesCopied = engine.actual
    /\ engine.BytesCopied = engine.writtenBytes

\* C8: the chunk list never holds more than MaxChunks chunks, no chunk is
\* larger than ChunkSize, and a chunk was added in the loop only in front of a
\* chunk that still held data the write side had not released (BytesInBuffer
\* not zero), to a list shorter than MaxChunks.
C8_ChunkListBounded ==
    engine.pc # "none"
    => /\ Len(engine.chunks) <= MaxChunks
       /\ \A i \in 1..Len(engine.chunks) : engine.chunks[i].BufferSize <= ChunkSize
       /\ \A sp \in engine.lastSplice : sp.next # 0 /\ sp.length < MaxChunks

\* The list has grown to MaxChunks chunks of which the next one still holds
\* data, and the reader waits for the write event instead of adding a chunk.
C8_Witness ==
    /\ engine.pc = "rwait"
    /\ Len(engine.chunks) = MaxChunks
    /\ engine.lastSplice # {}
    /\ ChunkOf(engine.chunks, engine.nextChunk).BytesInBuffer # 0

\* ------------------------------------------------ claims on the configuration

ReaderDone == config.pc = "run" /\ config.rd.pc = "done"

MutatorDone == config.pc = "run" /\ config.mu.pc = "done"

\* C11: a call of LcGetReportRateForPath that ran beside a change of the
\* report rate, of the watched paths or a reload from the registry returned
\* what the function returns on the whole configuration before the change or
\* on the whole configuration after it.
C11_CoherentRead ==
    (ReaderDone /\ MutatorDone) =>
        config.rd.result \in
            {LcGetReportRateForPath(config.mu.pre.paths, config.mu.pre.rate,
                                    config.rd.path),
             LcGetReportRateForPath(config.PathsToWatch, config.ReportRate,
                                    config.rd.path)}

\* ------------------------------------------- claims on the stream context

\* The thread's read/write callback has returned after LcFetchRemoteFile and
\* LcUntagFile both succeeded on the file.
Materialized(t, f) ==
    /\ thr[t].op = "rw" /\ thr[t].pc = "idle"
    /\ FileOf(thr[t].name) = f
    /\ thr[t].fetchStatus = "STATUS_SUCCESS"
    /\ thr[t].untagStatus = "STATUS_SUCCESS"

NothingInFlight == \A t \in Threads : thr[t].pc = "idle"

\* C12: when a file has been fetched and its mark cleared by a read/write
\* callback and no callback is running any more, the file has neither the
\* stub mark nor a stream context, whatever opens of the file ran beside the
\* fetcher.
C12_MaterializedIsClean ==
    \A f \in Files :
        (sys = "ok" /\ NothingInFlight /\ \E t \in Threads : Materialized(t, f))
            => (files[f].ReparseTag # "LC" /\ ~streamContext[f])

\* C13: after a fetch that returned success from a source that held fewer
\* bytes than the size it reported before the copy, the end of file of the
\* local file equals the bytes copied.
C13_EofIsBytesCopied ==
    (FetchSucceeded /\ engine.actual < engine.declared)
        => engine.EndOfFile = engine.BytesCopied

\* ------------------------------------------------ claims on the source opener

OpenReturned == opener.pc = "done"

\* C14: LcOpenFile returns what ZwOpenFile returned, with no notification,
\* unless that is STATUS_ACCESS_DENIED; then it asks the client, and returns
\* success with the duplicated handle when the client replied and the handle
\* was duplicated, STATUS_ACCESS_DENIED when the notification failed with
\* STATUS_PORT_DISCONNECTED or STATUS_TIMEOUT, and the failure status of the
\* notification or of the duplication otherwise.
C14_OpenerStatus ==
    OpenReturned =>
        IF opener.openStatus # "STATUS_ACCESS_DENIED"
        THEN /\ opener.status = opener.openStatus
             /\ ~opener.inUserMode /\ opener.notifications = <<>>
             /\ opener.Handle = IF opener.openStatus = "STATUS_SUCCESS"
                                THEN "direct" ELSE "NULL"
        ELSE /\ opener.inUserMode
             /\ CASE opener.sendStatus = "STATUS_SUCCESS"
                        /\ opener.duplicateStatus = "STATUS_SUCCESS" ->
                            opener.status = "STATUS_SUCCESS" /\ opener.Handle = "duplicate"
                  [] opener.sendStatus \in {"STATUS_PORT_DISCONNECTED", "STATUS_TIMEOUT"} ->
                            opener.status = "STATUS_ACCESS_DENIED" /\ opener.Handle = "NULL"
                  [] opener.sendStatus = "STATUS_SUCCESS" ->
                            opener.status = opener.duplicateStatus /\ opener.Handle = "NULL"
                  [] opener.sendStatus = "NONE" ->
                            opener.status = "STATUS_INSUFFICIENT_RESOURCES"
                            /\ opener.Handle = "NULL"
                  [] OTHER -> opener.status = opener.sendStatus /\ opener.Handle = "NULL"

\* An open that was denied, was passed to the client and came back because
\* the client had gone.
C14_Witness ==
    /\ OpenReturned
    /\ opener.openStatus = "STATUS_ACCESS_DENIED"
    /\ opener.notifications # <<>>
    /\ opener.sendStatus = "STATUS_PORT_DISCONNECTED"
    /\ opener.status = "STATUS_ACCESS_DENIED"

\* ------------------------------------------------ claims on query-information

QueryDone == query.pc = "done"

\* The end of file the claim expects for a file with a stream context.
SubstitutedSize ==
    IF query.lower.EndOfFile = 0 THEN query.file.RemoteFileSize
    ELSE query.lower.EndOfFile

\* C15 as stated: every successful query of a class with an end-of-file field
\* returns the remote size in place of a zero when the file has a stream
\* context, and the value of the layers below otherwise.
C15_SizeSubstituted ==
    (QueryDone /\ query.status = "STATUS_SUCCESS" /\ query.class \in SizeClasses)
        => query.buffer.EndOfFile =
              IF query.file.context THEN SubstitutedSize ELSE query.lower.EndOfFile

\* C15, amended: the same for the queries the pre-operation callback does not
\* ignore and whose post-operation callback is not called for draining; the
\* other queries return the value of the layers below.
C15_SizeSubstitutedUnlessIgnored ==
    (QueryDone /\ query.status = "STATUS_SUCCESS" /\ query.class \in SizeClasses)
        => query.buffer.EndOfFile =
              IF query.file.context /\ query.ignored = "none" /\ ~query.draining
              THEN SubstitutedSize ELSE query.lower.EndOfFile

\* A query of the standard class on an empty stub with a context returned
\* the remote size.
C15_Witness ==
    /\ QueryDone /\ query.status = "STATUS_SUCCESS"
    /\ query.class = "FileStandardInformation"
    /\ query.file.context /\ query.file.RemoteFileSize > 0
    /\ query.lower.EndOfFile = 0
    /\ query.buffer.EndOfFile = query.file.RemoteFileSize

\* C16: every successful query of a class with a FileAttributes field on a
\* stub returns attributes without OFFLINE and REPARSE_POINT.
C16_AttributesStripped ==
    (QueryDone /\ query.status = "STATUS_SUCCESS"
       /\ query.class \in AttributeClasses /\ query.file.marked)
        => query.buffer.FileAttributes \cap LC_FILE_ATTRIBUTES = {}

\* ------------------------------------------------ claims on the fetcher's I/O

C18_TimeoutStopsEngine ==
    (engine.pc # "none" /\ engine.timeouts > 0)
        => (engine.pc = "failed" /\ ~NT_SUCCESS(engine.status))

\* C19: a run of the loop of LcFetchFileByChunks that returns success has
\* left the loop at the break of the write side, with eof set and the chunk
\* of the write cursor empty, and by then every byte read from the source
\* has been written.
C19_ExitHasWrittenAll ==
    (FetchSucceeded /\ engine.declared # 0)
        => /\ engine.eof
           /\ ChunkOf(engine.chunks, engine.writeChunk).BytesInBuffer = 0
           /\ engine.totalBytesWritten = engine.totalBytesRead

\* ------------------------------------------------ claims on the lock registry

\* The thread has got the event ev from LcGetFileLock and has not yet called
\* LcReleaseFileLock.
HoldsFileLock(t, ev) ==
    /\ thr[t].op = "rw" /\ thr[t].pc # "idle"
    /\ ev # 0 /\ thr[t].fileLockEvent = ev

NoReadWriteInFlight == \A t \in Threads : thr[t].op = "rw" => thr[t].pc = "idle"

\* C20: FileLocksList has at most one entry for a path, compared without
\* case; every entry has a positive reference count, equal to the number of
\* threads that hold it; every holder's entry is in the list; and the list
\* is empty when no read/write callback is running.
C20_RegistryConsistent ==
    /\ \A i \in 1..Len(FileLocksList), j \in 1..Len(FileLocksList) :
          i # j => ~RtlCompareUnicodeString(FileLocksList[i].FileName,
                                            FileLocksList[j].FileName)
    /\ \A i \in 1..Len(FileLocksList) :
          /\ ~FileLocksList[i].freed
          /\ FileLocksList[i].RefCount > 0
          /\ FileLocksList[i].RefCount =
                Cardinality({t \in Threads : HoldsFileLock(t, FileLocksList[i].id)})
    /\ \A t \in Threads :
          HoldsFileLock(t, thr[t].fileLockEvent)
              => FirstWithEvent(FileLocksList, thr[t].fileLockEvent) # 0
    /\ NoReadWriteInFlight => FileLocksList = <<>>

\* ------------------------------------------------ claims on parked threads

\* A thread that leaves PreReadWriteOperationCallback with the file lock has
\* called LcReleaseFileLock: the event is signaled when the entry is still
\* referenced.
ReleaseSignals ==
    [][\A t \in WaitThreads :
          (thr[t].pc = "rw_release" /\ thr'[t].pc = "idle")
              => Released(FileLocksList, FileLocksList', thr[t].fileLockEvent)]_vars

\* A thread parked on the event is woken and returns from its callback.
ParkedCompletes ==
    \A t \in WaitThreads : (thr[t].pc = "rw_wait") ~> (thr[t].pc = "idle")

\* C21: no wake-up is lost: a release of the file lock that leaves other
\* references signals the event, and under fair scheduling every thread parked
\* on the event is woken and completes its callback, whatever the number of
\* waiters and the order of arrival.
C21_NoLostWakeup == ReleaseSignals /\ ParkedCompletes

\* ------------------------------------------------ claims on the connection

\* No callback of the port is running and no client connection exists.
NoLiveSession == session.pc = "idle" /\ ~session.connected

\* C22: whenever no session is live (before the first connect, after a
\* disconnect, after a connect that failed part-way) the client process id,
\* both process handles and the client port are NULL, so that a notification
\* sent then fails with STATUS_PORT_DISCONNECTED without touching a port.
C22_NoSessionNoFields ==
    NoLiveSession =>
        /\ session.ClientProcessId = "NULL"
        /\ ~session.ClientProcessHandle
        /\ ~session.SystemProcessHandle
        /\ ~session.ClientPort
        /\ session.lastSend \in {"NONE", "STATUS_PORT_DISCONNECTED", "sent"}

\* Between the callbacks of the port, a process is trusted exactly when it
\* owns the connection.
TrustedIsClient ==
    session.pc = "idle" =>
        \A pid \in ClientPids :
            pid \in TrustedProccessList <=> (session.connected /\ session.client = pid)

\* A step changes the trusted list by the process that connects or
\* disconnects, and by nothing else.
OnlyClientChanges ==
    TrustedProccessList' # TrustedProccessList =>
        \/ TrustedProccessList' = TrustedProccessList \cup {session.client}
        \/ TrustedProccessList' = TrustedProccessList \ {session.client}

\* C23: after any sequence of connects, failed connects and disconnects the
\* client's process id is trusted exactly when its session is live; a
\* successful connect adds it, a disconnect or a failed connect removes it,
\* and no other process id is added or removed.
C23_TrustedIffLive == []TrustedIsClient /\ [][OnlyClientChanges]_vars

\* A session is live after an earlier one was closed.
C23_Witness ==
    /\ session.pc = "idle" /\ session.connected
    /\ session.client \in TrustedProccessList
    /\ \E i \in 1..Len(session.events) : session.events[i] = "disconnected"

\* ------------------------------------------------ claims on the client's handle

\* The positions of the CloseFileHandle notifications passed to FltSendMessage.
CloseNotifications ==
    {i \in 1..Len(opener.notifications) :
        opener.notifications[i].Type = "CloseFileHandle"}

\* The client has replied to OpenFileInUserMode with a handle that is not NULL.
RepliedWithHandle == opener.sendStatus = "STATUS_SUCCESS" /\ opener.reply # 0

\* LcOpenFileInUserMode has returned.
InUserModeReturned ==
    opener.inUserMode /\ opener.pc \in {"map", "finally", "done", "closed"}

\* C24 as stated: for a reply with a handle that is not NULL, one
\* CloseFileHandle with that handle is sent, and it is sent only after the
\* fetch that reads through the duplicate has ended.
C24_ClosedAfterFetch ==
    /\ [](opener.pc # "none" =>
             /\ Cardinality(CloseNotifications) <= 1
             /\ \A i \in CloseNotifications :
                   RepliedWithHandle
                   /\ opener.notifications[i].FileHandle = opener.reply)
    /\ [][\A i \in 1..Len(opener'.notifications) :
             (i > Len(opener.notifications)
              /\ opener'.notifications[i].Type = "CloseFileHandle")
                 => opener.pc = "closed"]_vars

\* C24 amended: at most one CloseFileHandle is sent, with the handle of the
\* reply; LcCloseFileHandle is called once for every reply with a handle that
\* is not NULL, whether or not the handle was duplicated, before
\* LcOpenFileInUserMode returns and so before the source is read through the
\* duplicate; its notification reaches the port unless the client is
\* disconnected or the notification cannot be allocated.
C24_ClosedAfterDuplicate ==
    opener.pc # "none" =>
        /\ Cardinality(CloseNotifications) <= 1
        /\ \A i \in CloseNotifications :
              RepliedWithHandle /\ opener.notifications[i].FileHandle = opener.reply
        /\ opener.closeStatus # "NONE" => RepliedWithHandle
        /\ InUserModeReturned =>
              /\ RepliedWithHandle => opener.closeStatus # "NONE"
              /\ CloseNotifications # {} <=>
                    opener.closeStatus \notin {"NONE", "STATUS_INSUFFICIENT_RESOURCES",
                                               "STATUS_PORT_DISCONNECTED"}
        /\ opener.read = "duplicate" => opener.closeStatus # "NONE"

\* The source was read through the duplicate of the client's handle 2 and
\* closed, and one CloseFileHandle with handle 2 was sent.
C24_Witness ==
    /\ opener.pc = "closed" /\ opener.read = "duplicate"
    /\ opener.reply = 2
    /\ \E i \in CloseNotifications : opener.notifications[i].FileHandle = 2

\* ------------------------------------------------ claims on the report rate

\* C25: Configuration.ReportRate is within [0, MAX_REPORT_RATE] in every
\* state: the set_report_rate command and the registry reader store the
\* smaller of the value given and MAX_REPORT_RATE (a reader that fails stores
\* 0), and no other operation changes the rate.
C25_RateInRange ==
    /\ [](config.pc = "run" =>
            /\ config.ReportRate \in 0..MAX_REPORT_RATE
            /\ (config.mu.op = "set_report_rate" /\ config.mu.pc = "done")
                  => config.ReportRate = Min(config.mu.value, MAX_REPORT_RATE)
            /\ (config.mu.op = "reload" /\ NT_SUCCESS(config.mu.status)
                /\ config.mu.pc # "finally")
                  => config.ReportRate = Min(config.mu.value, MAX_REPORT_RATE)
            /\ (config.mu.op = "reload" /\ ~NT_SUCCESS(config.mu.status)
                /\ config.mu.pc = "done")
                  => config.ReportRate = 0)
    /\ [][(config.pc = "run" /\ config'.ReportRate # config.ReportRate)
             => config'.mu.op \in {"set_report_rate", "reload"}]_vars

\* The client has sent a report rate above MAX_REPORT_RATE.
C25_Witness ==
    /\ config.pc = "run"
    /\ config.mu.op = "set_report_rate" /\ config.mu.pc = "done"
    /\ config.mu.value > MAX_REPORT_RATE
    /\ config.ReportRate = MAX_REPORT_RATE
    /\ config.mu.pre.rate < MAX_REPORT_RATE

\* ------------------------------------------------ claims on the watched paths

\* p is a prefix of q, compared without case.
CaseInsensitivePrefix(p, q) ==
    /\ Len(p) <= Len(q)
    /\ \A i \in 1..Len(p) : Upcase(p[i]) = Upcase(q[i])

\* Some path of the list the client sent is a prefix of q.
CoveredByList(q) ==
    \E i \in 1..Len(config.mu.list) : CaseInsensitivePrefix(config.mu.list[i].dir, q)

SetWatchPathsSucceeded ==
    /\ config.pc = "run"
    /\ config.mu.op = "set_watch_paths" /\ config.mu.pc = "done"
    /\ NT_SUCCESS(config.mu.status)

\* C26: after a successful set_watch_paths(P) a path is watched exactly when
\* some path of P is a prefix of it, compared without case, whatever the
\* order of P and although a path covered by an earlier one is not stored;
\* LcGetReportRateForPath returns the report rate for a watched path and 0
\* for any other.
C26_WatchedIffPrefix ==
    SetWatchPathsSucceeded =>
        \A q \in QueryPaths :
            /\ LcIsPathWatched(config.PathsToWatch, q) <=> CoveredByList(q)
            /\ LcGetReportRateForPath(config.PathsToWatch, config.ReportRate, q)
                  = IF CoveredByList(q) THEN config.ReportRate ELSE 0

\* The second path of the list was covered by the first and is not stored,
\* and a path below it is watched.
C26_Witness ==
    /\ SetWatchPathsSucceeded
    /\ Len(config.mu.list) = 2
    /\ config.mu.list[2].dir = <<"A", "b">>
    /\ config.PathsToWatch = {<<"a">>}
    /\ LcIsPathWatched(config.PathsToWatch, <<"A", "B", "f">>)
    /\ config.ReportRate > 0

\* ------------------------------------------------ claims on the open pre-handler

\* The open as the claims describe a candidate: a file object, no directory
\* option, not by ID, not a volume open, no paging I/O, a disposition other
\* than FILE_CREATE, and neither generated nor reissued I/O.
CandidateOpen(req) ==
    /\ "NO_TARGET_FILE_OBJECT" \notin req.Flags
    /\ "FILE_DIRECTORY_FILE" \notin req.Options
    /\ "FILE_OPEN_BY_FILE_ID" \notin req.Options
    /\ "FO_VOLUME_OPEN" \notin req.Flags
    /\ req.Flags \cap {"SL_OPEN_PAGING_FILE", "IRP_PAGING_IO",
                       "IRP_SYNCHRONOUS_PAGING_IO"} = {}
    /\ req.Disposition # "FILE_CREATE"
    /\ req.Flags \cap {"FLTFL_CALLBACK_DATA_GENERATED_IO",
                       "FLTFL_CALLBACK_DATA_REISSUED_IO"} = {}

PreCallbackReturned == request.pc = "done"

PostCallbackScheduled == request.callbackStatus = "FLT_PREOP_SUCCESS_WITH_CALLBACK"

\* The open is passed through: no post-callback, no completion context, and
\* the request as it came.
PassedThroughUnchanged ==
    /\ request.callbackStatus = "FLT_PREOP_SUCCESS_NO_CALLBACK"
    /\ request.completionContext = {}
    /\ request.Data = request.before

TrustedOpen == PidOf(request.thread) \in TrustedProccessList

\* C27 as stated: the pre-callback schedules the post-callback exactly for
\* the candidate opens, and passes every other open through unchanged.
C27_CallbackIffCandidate ==
    PreCallbackReturned =>
        /\ PostCallbackScheduled <=> CandidateOpen(request.before)
        /\ ~CandidateOpen(request.before) => PassedThroughUnchanged

\* C27 amended: the post-callback is scheduled exactly for the candidate
\* opens of a process that is not trusted, made while the driver is not
\* disabled, for which the completion context and the file name were
\* obtained; every open that is not a candidate is passed through unchanged.
C27_CallbackIffEligible ==
    PreCallbackReturned =>
        /\ PostCallbackScheduled <=>
              /\ CandidateOpen(request.before)
              /\ request.operationMode # {}
              /\ ~TrustedOpen
              /\ request.outcome = "ok"
        /\ PostCallbackScheduled =>
              /\ request.completionContext = {[OperationMode |-> request.operationMode]}
              /\ request.Data = request.before
        /\ ~CandidateOpen(request.before) => PassedThroughUnchanged

\* A candidate open for which the post-callback is scheduled.
C27_Witness ==
    /\ PreCallbackReturned /\ PostCallbackScheduled
    /\ request.before.Disposition = "FILE_OVERWRITE_IF"
    /\ "FILE_NON_DIRECTORY_FILE" \in request.before.Options

\* C28: for an open by a trusted process the request is changed only by
\* adding the default create options and share access to the ones it has:
\* every other bit and field stays, nothing at all changes when the default
\* flags are already there, and no post-callback is scheduled.
C28_TrustedOnlyWidened ==
    (PreCallbackReturned /\ TrustedOpen) =>
        /\ request.callbackStatus = "FLT_PREOP_SUCCESS_NO_CALLBACK"
        /\ request.completionContext = {}
        /\ request.Data.Disposition = request.before.Disposition
        /\ request.Data.Flags = request.before.Flags
        /\ IF CandidateOpen(request.before) /\ request.operationMode # {}
           THEN /\ request.Data.Options = request.before.Options \cup DefaultCreateOptions
                /\ request.Data.ShareAccess =
                       request.before.ShareAccess \cup DefaultShareAccess
           ELSE request.Data = request.before
        /\ (/\ DefaultCreateOptions \subseteq request.before.Options
            /\ DefaultShareAccess \subseteq request.before.ShareAccess)
              => request.Data = request.before

\* A trusted open that carried one of the default options and other bits,
\* and was widened.
C28_Witness ==
    /\ PreCallbackReturned /\ TrustedOpen
    /\ request.before.Options = {"FILE_OPEN_REPARSE_POINT", "FILE_NON_DIRECTORY_FILE"}
    /\ request.before.ShareAccess = {"FILE_SHARE_DELETE"}
    /\ request.Data.Options = DefaultCreateOptions \cup {"FILE_NON_DIRECTORY_FILE"}
    /\ request.Data.ShareAccess = DefaultShareAccess \cup {"FILE_SHARE_DELETE"}
    /\ request.Data.Dirty

\* ------------------------------------------- claims on the open post-handler

\* What a re-issued open reports when it replaced the file.
ReplacedFile == {"FILE_CREATED", "FILE_OVERWRITTEN", "FILE_SUPERSEDED"}

\* The re-issued open of thread t has reported that it created, overwrote or
\* superseded the file, and the post-callback has not returned yet.
ReportsReplaced(t) ==
    /\ thr[t].op = "create" /\ thr[t].pc = "cr_untag"
    /\ thr[t].IoStatus.Information \in ReplacedFile

\* The post-callback of thread t returns in this step.
PostCallbackReturns(t) == thr[t].pc # "idle" /\ thr'[t].pc = "idle"

\* Thread u hands the file f to the fetch engine in this step.
FetchStarts(u, f) ==
    /\ thr[u].pc # "rw_fetching" /\ thr'[u].pc = "rw_fetching"
    /\ FileOf(thr'[u].name) = f

\* Only a file that carries the mark is fetched, and a mark that was cleared
\* does not come back.
NoFetchOnceCleared ==
    /\ \A u \in Threads, f \in Files : FetchStarts(u, f) => files[f].ReparseTag = "LC"
    /\ \A f \in Files : files[f].ReparseTag # "LC" => files'[f].ReparseTag # "LC"

\* C29 as stated: when the re-issued open reports that it replaced the file,
\* the post-callback leaves the mark cleared and attaches no stream context,
\* and from then on no read or write of the file starts a fetch.
C29_ReplacedClearsMark ==
    [][/\ \A t \in Threads :
            (ReportsReplaced(t) /\ PostCallbackReturns(t)) =>
                /\ files'[FileOf(thr[t].name)].ReparseTag # "LC"
                /\ streamContext' = streamContext
       /\ NoFetchOnceCleared]_vars

\* C29 amended: when the re-issued open reports that it replaced the file,
\* the post-callback attaches no stream context and either leaves the mark
\* cleared or, the mark clear having failed, fails the open with the status
\* of the mark clear; an open that succeeds has left the mark cleared, and
\* from then on no read or write of the file starts a fetch.
C29_ReplacedClearsMarkOrFails ==
    [][/\ \A t \in Threads :
            (ReportsReplaced(t) /\ PostCallbackReturns(t)) =>
                /\ streamContext' = streamContext
                /\ \/ files'[FileOf(thr[t].name)].ReparseTag # "LC"
                   \/ /\ ~NT_SUCCESS(thr'[t].untagStatus)
                      /\ thr'[t].IoStatus =
                            [Status |-> thr'[t].untagStatus, Information |-> "0"]
                /\ NT_SUCCESS(thr'[t].IoStatus.Status) =>
                      /\ files'[FileOf(thr[t].name)].ReparseTag # "LC"
                      /\ thr'[t].IoStatus = thr[t].IoStatus
       /\ NoFetchOnceCleared]_vars

\* An open that superseded a stub has returned with the mark cleared, the
\* stream context of an earlier open is still attached, and a read of the
\* file that came after has consumed the event and passes through unfetched.
C29_Witness ==
    \E t \in Threads, u \in Threads :
        /\ thr[t].op = "create" /\ thr[t].pc = "idle"
        /\ thr[t].IoStatus = [Status |-> "STATUS_SUCCESS", Information |-> "FILE_SUPERSEDED"]
        /\ thr[t].untagStatus = "STATUS_SUCCESS"
        /\ files[FileOf(thr[t].name)].ReparseTag # "LC"
        /\ streamContext[FileOf(thr[t].name)]
        /\ thr[u].op = "rw" /\ thr[u].pc = "rw_release"
        /\ FileOf(thr[u].name) = FileOf(thr[t].name)
        /\ ~thr[u].parked /\ thr[u].fetchStatus = "NONE"
        /\ NT_SUCCESS(thr[u].status)

\* ------------------------------------------- claims on the context store

\* The context observer o was given by LcFindOrCreateStreamContext or
\* LcGetStreamContext and has not released yet; 0 when it holds none.
Holds(o) ==
    IF contexts.obs[o].pc \in {"cr_hold", "rw_hold", "rw_delete", "rw_release"}
    THEN contexts.obs[o].context ELSE 0

\* The stream has at most one context, and no observer holds a context that
\* the cleanup callback has been called for.
OneAttachedNoneFreed ==
    /\ Cardinality(Attached(contexts.pool)) <= 1
    /\ \A o \in Observers : Holds(o) # 0 => ~contexts.pool[Holds(o)].freed

\* The attach of observer o returns in this step; of the observers that race
\* the first finds no context, attaches its own and reports created = TRUE,
\* and every other one releases the context it built, which is then cleaned
\* up, and returns the attached one with created = FALSE.
AttachWinsOrAdopts ==
    \A o \in Observers :
        (contexts.obs[o].pc = "set" /\ contexts'.obs[o].pc = "cr_hold") =>
            LET built == contexts.obs[o].context IN
            IF Attached(contexts.pool) = {}
            THEN /\ contexts'.obs[o].contextCreated
                 /\ contexts'.obs[o].context = built
                 /\ Attached(contexts'.pool) = {built}
            ELSE /\ ~contexts'.obs[o].contextCreated
                 /\ contexts'.obs[o].context \in Attached(contexts.pool)
                 /\ Attached(contexts'.pool) = Attached(contexts.pool)
                 /\ contexts'.pool[built].freed

\* The fields of a context stay as they were created, from the mark, until
\* the cleanup callback runs on it.
FieldsKept ==
    \A i \in 1..Len(contexts.pool) :
        ~contexts'.pool[i].freed =>
            Fields(contexts'.pool[i]) = Fields(contexts.pool[i])

\* C30 as stated: of the opens that race to attach a context one wins and
\* the others release theirs and adopt the winner's; in every state the file
\* has at most one attached context and all observers hold the same context,
\* whose fields never change.
C30_OneContextForAll ==
    /\ [](/\ OneAttachedNoneFreed
          /\ \A o1 \in Observers, o2 \in Observers :
                (Holds(o1) # 0 /\ Holds(o2) # 0) => Holds(o1) = Holds(o2))
    /\ [][AttachWinsOrAdopts /\ FieldsKept]_vars

\* What does hold: the observers that hold a context which has not been
\* deleted from the stream hold the same context, the attached one; an
\* observer can still hold the context that the fetcher deleted while an open
\* holds the one it attached afterwards.
OneContextUntilDeleted ==
    /\ [](/\ OneAttachedNoneFreed
          /\ \A o \in Observers :
                (Holds(o) # 0 /\ ~contexts.pool[Holds(o)].deleted) =>
                    Holds(o) \in Attached(contexts.pool))
    /\ [][AttachWinsOrAdopts /\ FieldsKept]_vars

\* Three opens have raced: one attached its context, the two others built
\* their own, released them and hold the winner's.
ThreeOpensRaced ==
    /\ \A o \in Observers : contexts.obs[o].pc = "cr_hold"
    /\ Cardinality({o \in Observers : contexts.obs[o].contextCreated}) = 1
    /\ \A o \in Observers : Holds(o) \in Attached(contexts.pool)
    /\ Cardinality({i \in 1..Len(contexts.pool) : contexts.pool[i].freed}) = 2

\* ------------------------------------------------ claims on the stub mark

\* The declared data length covers the remote size and the nul-terminated
\* remote path.
CoversFields(m) == m.ReparseDataLength >= BytesOfFields(m)

\* C31: reading a mark succeeds only when the declared data length covers
\* both fields, and a mark whose declared data length is smaller is rejected
\* with STATUS_IO_REPARSE_DATA_INVALID and yields no size and no path.
C31_ShortMarkRejected ==
    reparse.pc \in {"done", "crashed"} =>
        /\ NT_SUCCESS(reparse.status) => CoversFields(reparse.mark)
        /\ ~CoversFields(reparse.mark) =>
              /\ reparse.status = "STATUS_IO_REPARSE_DATA_INVALID"
              /\ reparse.RemoteFileSize = "NONE"
              /\ reparse.RemoteFilePath = "NONE"

\* What does hold: a mark whose data is exactly the two fields is read, with
\* the size and the path it holds, when no call fails.
ExactMarkRead ==
    (/\ reparse.pc = "done"
     /\ reparse.mark.ReparseDataLength = BytesOfFields(reparse.mark)
     /\ reparse.status \notin {"STATUS_INSUFFICIENT_RESOURCES", "STATUS_ACCESS_DENIED"}) =>
        /\ reparse.status = "STATUS_SUCCESS"
        /\ reparse.RemoteFileSize = reparse.mark.RemoteFileSize
        /\ reparse.RemoteFilePath = [chars |-> reparse.mark.chars]

\* The mark clear returned success.
ClearSucceeded == untagCall.calls > 0 /\ untagCall.status = "STATUS_SUCCESS"

\* The attribute bits a mark clear is meant to leave: those of the file before
\* the call without the three bits of the mark.
AttributesKept ==
    untagCall.before.FileAttributes \ {"REPARSE_POINT", "OFFLINE", "NOT_CONTENT_INDEXED"}

\* C32: after a successful mark clear the file has no mark, REPARSE_POINT,
\* OFFLINE and NOT_CONTENT_INDEXED are clear, read-only is as it was before
\* the call, and every other attribute bit is unchanged.
C32_ClearFrame ==
    ClearSucceeded =>
        /\ untagCall.file.ReparseTag = "NONE"
        /\ untagCall.file.FileAttributes = AttributesKept

\* With at least one attribute bit left to store, a successful mark clear
\* leaves exactly the bits the file had, without the three bits of the mark.
ClearFrameWhenBitsRemain ==
    (ClearSucceeded /\ AttributesKept # {}) =>
        /\ untagCall.file.ReparseTag = "NONE"
        /\ untagCall.file.FileAttributes = AttributesKept

\* ------------------------------------------------- claims on chunk capacity

\* The capacity a chunk is meant to have for a number of remaining bytes.
Capacity(remainingBytes) == Min(ChunkSize, Max(1, remainingBytes))

\* C33: every chunk the fetch allocates has capacity
\* min(ChunkSize, max(1, remaining)), remaining being ChunkSize when it was
\* zero or less; the capacity is never 0 and is ChunkSize whenever remaining
\* is at least ChunkSize, also when remaining is 2^32 or more.
C33_ChunkCapacity ==
    chunking.pc # "none" =>
        \A i \in 1..Len(chunking.chunks) :
            /\ chunking.chunks[i].BufferSize = Capacity(chunking.asked[chunking.chunks[i].id])
            /\ chunking.chunks[i].BufferSize # 0

\* Below 2^32 remaining bytes the chunks have the capacity of C33, and no
\* chunk of any fetch has capacity 0 or more than ChunkSize.
CapacityBelowULongRange ==
    chunking.pc # "none" =>
        \A i \in 1..Len(chunking.chunks) :
            /\ chunking.chunks[i].BufferSize \in 1..ChunkSize
            /\ chunking.asked[chunking.chunks[i].id] < ULongRange =>
                 chunking.chunks[i].BufferSize = Capacity(chunking.asked[chunking.chunks[i].id])

\* -------------------------------------------- claims on the operation mode

\* C34: while the operation mode is empty the driver does nothing: no open
\* attaches a stream context or clears a mark and no read, write or section
\* acquire starts a fetch, also on a file whose context was attached before the
\* mode became empty.
C34_DisabledDoesNothing ==
    gate.pc # "none" =>
        \A t \in ModeThreads :
            gate.th[t].did # "none" => gate.th[t].modeThen # DriverDisabled

\* An open attaches a context or clears a mark only if FetchEnabled was set
\* when its pre-operation callback read the mode: an open that begins while
\* the mode is empty does neither.
DisabledOpenDoesNothing ==
    [][\A t \in ModeThreads :
          (gate.th[t].pc = "idle" /\ gate.mode = DriverDisabled
           /\ gate'.th[t].pc = "post") => FALSE]_vars

\* Nothing is attached and no mark is cleared by an open whose completion
\* context does not carry FetchEnabled.
OpenWorksOnlyWithFetchEnabled ==
    [][\A t \in ModeThreads :
          (gate.th[t].pc = "post" /\ gate'.th[t].did \in {"attached", "cleared"})
          => "FetchEnabled" \in gate.th[t].OperationMode]_vars

\* ------------------------------- claims on the errors of the read/write handler

\* Thread t returns from PreReadWriteOperationCallback in this step with the
\* failure status it holds at the __finally block.
ReturnsWithError(t) ==
    /\ thr[t].pc = "rw_release"
    /\ ~NT_SUCCESS(thr[t].status)
    /\ thr'[t].pc = "idle"

\* Thread t returns in this step because LcGetFileLock failed.
ReturnsWithoutLock(t) == thr[t].pc = "rw_lock" /\ thr'[t].pc = "idle"

\* Thread t enters and returns in this step because the file name of a file
\* with a stream context could not be resolved.
ReturnsWithoutName(t) ==
    /\ thr[t].pc = "idle"
    /\ thr'[t].pc = "idle"
    /\ thr'[t] # thr[t]
    /\ thr'[t].op = "rw"
    /\ ~thr'[t].trusted
    /\ streamContext[FileOf(thr'[t].name)]

\* The I/O of thread t is completed with a failure, and the file keeps its mark.
IoFailedMarkKept(t) ==
    /\ thr'[t].callbackStatus = "FLT_PREOP_COMPLETE"
    /\ ~NT_SUCCESS(thr'[t].IoStatus.Status)
    /\ files'[FileOf(thr'[t].name)].ReparseTag = "LC"

\* C35: every error the read/write pre-handler meets on an open with a stream
\* context (file name, file lock, query of the mark at the re-check, fetch,
\* mark clear) fails the I/O with that status and leaves the mark in place;
\* the I/O is never passed through after such an error.
C35_ErrorsFailTheIo ==
    [][\A t \in Threads :
          /\ ReturnsWithError(t) =>
               IoFailedMarkKept(t) /\ thr'[t].IoStatus.Status = thr[t].status
          /\ ReturnsWithoutLock(t) => IoFailedMarkKept(t)
          /\ ReturnsWithoutName(t) => IoFailedMarkKept(t)]_vars

\* An error met after the re-check (in the fetch, the mark clear or the
\* removal of the context) fails the I/O with that status, and the return
\* leaves the file as it is.
ErrorsAfterRecheckFailTheIo ==
    [][\A t \in Threads :
          (ReturnsWithError(t) /\ thr[t].cancelOnError) =>
              /\ thr'[t].callbackStatus = "FLT_PREOP_COMPLETE"
              /\ thr'[t].IoStatus.Status = thr[t].status
              /\ files' = files]_vars

\* ----------------------------------- claims on the failures of the mark clear

\* PostCreateOperationCallback of thread t returns in this step from the mark
\* clear, from reading the mark or from attaching the context.
PostProcessingEnds(t) ==
    /\ thr[t].pc \in {"cr_untag", "cr_getrp", "cr_setctx"}
    /\ thr'[t].pc = "idle"

\* The open of thread t is cancelled in this step and completes with a failure.
OpenCancelled(t) ==
    /\ ~NT_SUCCESS(thr'[t].IoStatus.Status)
    /\ thr'[t].IoStatus.Information = "0"

\* The open of thread t completes in this step as the re-issued open did.
OpenKept(t) == thr'[t].IoStatus = thr[t].IoStatus

\* What open post-processing does with a failure: a failed mark clear cancels
\* the open with the status of the clear, reading the mark of a file without
\* the mark lets the open succeed, every return either keeps or cancels the
\* open, and a cancelled open has attached no stream context.
FailureCancelsOpen(t) ==
    PostProcessingEnds(t) =>
        /\ (thr[t].pc = "cr_untag" /\ ~NT_SUCCESS(thr'[t].untagStatus)) =>
              /\ OpenCancelled(t)
              /\ thr'[t].IoStatus.Status = thr'[t].untagStatus
        /\ (thr[t].pc = "cr_getrp" /\ files[FileOf(thr[t].name)].ReparseTag # "LC") =>
              OpenKept(t)
        /\ OpenKept(t) \/ OpenCancelled(t)
        /\ (OpenCancelled(t) \/ thr[t].pc # "cr_setctx") => streamContext' = streamContext

\* The mark clear of thread t fails in this step, after its fetch succeeded.
ClearFailsAfterFetch(t) ==
    /\ thr[t].pc = "rw_untag"
    /\ thr'[t].pc # "rw_untag"
    /\ ~NT_SUCCESS(thr'[t].untagStatus)

\* The read or write of thread t returns in this step after a failed mark clear.
ReturnsAfterFailedClear(t) ==
    /\ thr[t].pc = "rw_release"
    /\ thr[t].untagStatus # "NONE"
    /\ ~NT_SUCCESS(thr[t].untagStatus)
    /\ thr'[t].pc = "idle"

ReadsFilling ==
    {r \in engine.pending : Delivered(engine.actual, r.offset, r.length) > 0}

\* No read in flight fills a buffer that a write in flight is taken from, and
\* no read in flight fills a buffer whose bytes have not been written yet.
BuffersNotShared ==
    /\ \A w \in engine.pendingWrite :
          /\ w.raced = {}
          /\ \A r \in ReadsFilling : r.chunk # w.chunk
    /\ \A r \in ReadsFilling :
          ChunkOf(engine.chunks, r.chunk).data <= engine.written

\* C37: in every reachable state of a fetch, whatever the timing of the
\* completions, no chunk buffer is the target of a read in flight while it
\* holds bytes not yet written or while a write from it is in flight, and no
\* write is issued from a chunk whose read has not completed; after the wait
\* for the write event at MaxChunks the read cursor never moves onto a second
\* chunk whose write has not completed.  Stated for the runs in which no wait
\* ended by its timeout and no write failed.
C37_BuffersNotShared ==
    (engine.pc \notin {"none", "start", "failed"} /\ engine.timeouts = 0
        /\ NT_SUCCESS(engine.writeCallbackContext.Status))
    => BuffersNotShared

\* Until the reads have gone once round a full ring, and with no wait ended by
\* its timeout, no buffer is shared between a read and a write or read again
\* before it was written.
BuffersNotSharedFirstRound ==
    (engine.pc \notin {"none", "start", "failed"} /\ engine.timeouts = 0
        /\ Len(engine.reads) <= MaxChunks)
    => BuffersNotShared

\* --------------------------------------- claims on the failed acquire

\* LcGetFileLock of thread t fails in this step.
AcquireFails(t) == thr[t].pc = "rw_lock" /\ thr'[t].pc = "idle"

\* C38: an Acquire(path) that fails because an allocation fails leaves the
\* lock registry unchanged: every entry is still there with its path, event
\* state and reference count, and no entry that is still linked is freed.
C38_FailedAcquireLeavesRegistry ==
    [][\A t \in Threads :
          AcquireFails(t) =>
              /\ FileLocksList' = FileLocksList
              /\ \A i \in 1..Len(FileLocksList') : ~FileLocksList'[i].freed]_vars

\* A failed Acquire links and unlinks nothing and leaves every entry but the
\* last of the list as it was.
FailedAcquireSparesAllButLast ==
    [][\A t \in Threads :
          AcquireFails(t) =>
              /\ Len(FileLocksList') = Len(FileLocksList)
              /\ \A i \in 1..(Len(FileLocksList) - 1) :
                    FileLocksList'[i] = FileLocksList[i]]_vars

\* ------------------------------------------------ claims on the lock order

\* Thread t asks for resource r, and whether its request is held up.
Requests(t, r) ==
    InOperation(t) /\ StepOf(t).do = "acquire" /\ StepOf(t).resource = r

AtWait(t) == InOperation(t) /\ StepOf(t).do \in {"trywait", "wait"}

Blocked(t) ==
    /\ InOperation(t)
    /\ \/ StepOf(t).do = "acquire"
          /\ ~Granted(t, StepOf(t).resource, StepOf(t).mode)
       \/ StepOf(t).do = "wait" /\ ~sync.ev[sync.th[t].file].Event

\* C39: no interleaving of opens, reads and writes, helper commands, connects
\* and disconnects deadlocks: whenever threads are inside an operation one of
\* them can take its next step; Globals.Lock is never requested by a thread
\* that holds Configuration.Lock or FileLocksResource; no resource is requested
\* by a thread that holds FileLocksResource; and no thread waits on the event
\* of a file while it holds one of the three resources.
C39_NoDeadlock ==
    /\ (\E t \in LockThreads : InOperation(t))
          => \E t \in LockThreads : InOperation(t) /\ ~Blocked(t)
    /\ \A t \in LockThreads :
          /\ Requests(t, "Globals")
                => ~Owns(t, "Configuration") /\ ~Owns(t, "FileLocks")
          /\ (\E r \in Resources : Requests(t, r)) => ~Owns(t, "FileLocks")
          /\ AtWait(t) => \A r \in Resources : ~Owns(t, r)

\* One thread holds Globals.Lock and is held up at Configuration.Lock, which a
\* second thread owns exclusively, while a third thread has taken the event of
\* a file and fetches.
C39_Witness ==
    \E t, u, v \in LockThreads :
        /\ Owns(t, "Globals") /\ Requests(t, "Configuration") /\ Blocked(t)
        /\ u # t /\ Owns(u, "Configuration") /\ sync.res["Configuration"].exclusive
        /\ v \notin {t, u} /\ InOperation(v) /\ StepOf(v).do = "fetch"
        /\ ~sync.ev[sync.th[v].file].Event

\* ------------------------------------- claims on the connection in use

\* A call of LcOpenFileInUserMode is in flight: its notification was sent and
\* it has not returned.
InFlight(t) == helper.call[t].pc \in {"waiting", "duplicate", "close"}

\* The connection variables are as connection gen left them when it was
\* established: the port is its port and no handle of it was closed or cleared.
SessionLive(gen) ==
    /\ helper.ClientPort = gen
    /\ helper.ClientProcessHandle.state = "open" => helper.ClientProcessHandle.gen = gen
    /\ helper.SystemProcessHandle.state = "open" => helper.SystemProcessHandle.gen = gen
    /\ helper.connected =>
          /\ helper.ClientProcessHandle = OpenHandle(gen)
          /\ helper.SystemProcessHandle = OpenHandle(gen)
    /\ helper.port \in {"idle", "open_client", "open_system", "add_trusted"}

\* The call used the connection its notification went to, and nothing else:
\* ZwDuplicateObject was handed the open handles of that connection and the
\* CloseFileHandle notification went to its port.
RanOnItsSession(c) ==
    /\ c.dupClient # NoHandle =>
          c.dupClient = OpenHandle(c.gen) /\ c.dupSystem = OpenHandle(c.gen)
    /\ c.closed => c.closeGen = c.gen

\* C40: the connection variables are guarded while LcOpenFileInUserMode is in
\* flight: from the notification sent to the CloseFileHandle notification no
\* disconnect clears or closes ClientProcessHandle, SystemProcessHandle or
\* ClientPort under the call, and a call that has returned either ran wholly
\* on the connection it was sent to or failed with STATUS_PORT_DISCONNECTED.
C40_SessionGuarded ==
    \A t \in Callers :
        /\ InFlight(t) => SessionLive(helper.call[t].gen)
        /\ helper.call[t].pc = "done" =>
              \/ helper.call[t].status = "STATUS_PORT_DISCONNECTED"
              \/ RanOnItsSession(helper.call[t])

\* What holds: a call that waits for the reply when the port is closed, or
\* that finds no ClientPort, fails with STATUS_PORT_DISCONNECTED and hands out
\* no handle; and a call that was handed the open handles of its connection
\* hands out a handle of the client only.
DisconnectedWhileWaitingFails ==
    \A t \in Callers :
        /\ (helper.call[t].pc = "done" /\ helper.call[t].status = "STATUS_PORT_DISCONNECTED")
              => helper.call[t].Handle = "NULL" /\ helper.call[t].dupClient = NoHandle
        /\ (helper.call[t].dupClient = OpenHandle(helper.call[t].gen)
            /\ helper.call[t].dupSystem = OpenHandle(helper.call[t].gen))
              => helper.call[t].Handle # "foreign"
        /\ helper.call[t].pc = "waiting" => helper.ClientPort = helper.call[t].gen

====
